---------------------------- MODULE Spec2Model ----------------------------
(***************************************************************************)
(* Vehicle detection backend: the tracker (backend/tracker.py), the        *)
(* detection engine's processing loop and broadcast mailbox                *)
(* (backend/services/engine.py) and the WebSocket connection manager       *)
(* (backend/services/websocket.py).                                        *)
(*                                                                         *)
(* Conventions                                                             *)
(*  - A centroid (x1+x2)/2, (y1+y2)/2 is held doubled, <<x1+x2, y1+y2>>,   *)
(*    so that it stays an integer; every use divides the factor out.       *)
(*  - speed_kmh is held in tenths of km/h (round(speed, 1) * 10).          *)
(*  - A detection without a "track_id" key carries track_id = NoTrackId.   *)
(***************************************************************************)
EXTENDS Integers, Sequences, FiniteSets, TLC

VARIABLES
    \* ---- VehicleTracker (tracker.py) ----
    tracks,                 \* self.tracks: track_id -> Track
    frame_number,           \* self.frame_number
    tracking_data,          \* the list returned by the last update() call
    last_detections,        \* the argument of the last update() call (history)
    evicted,                \* the ids the last update() call deleted (history)
    \* ---- DetectionEngine (engine.py) ----
    counts,                 \* stats["counts"]
    seen_ids,               \* stats["seen_ids"]
    timeline,               \* stats["timeline"]
    frame_count,            \* stats["frame_count"]
    source_type,            \* stats["source_type"]
    tracking_enabled,       \* stats["tracking_enabled"]
    current_camera_id,      \* stats["current_camera_id"]
    is_running,             \* engine.is_running
    loop_alive,             \* the _process_loop thread is running (stop_event is clear)
    sm_running,             \* stream_mgr.is_running
    latest_broadcast_data,  \* the single-slot mailbox
    broadcast_seq,          \* self._broadcast_seq
    store,                  \* detection_counts table: camera_id -> counts
    \* history of the engine's run (not program state)
    pub_count,              \* number of payloads published so far (payload identity)
    fresh,                  \* payloads published since the previous read, in order
    read_log,               \* one entry per get_broadcast_data call
    history,                \* len(detections) of every frame processed in the session
    last_step,              \* the last processed frame: its detections, the counts before it
    n_sources,              \* number of set_source_* calls so far
    \* ---- ConnectionManager (websocket.py) ----
    clients,                \* the ClientState object of every viewer
    conn_order,             \* the keys of self.clients, in insertion order
    bcast,                  \* every broadcast() call: its position and its send tasks
    runq,                   \* the event loop's queue of ready callbacks (FIFO)
    n_bcast,                \* number of broadcast() calls made so far
    \* ---- StreamManager (stream_manager.py) ----
    cap,                    \* self.cap: a capture handle, NoCapture for None
    open_caps,              \* the capture handles that are open (not released)
    n_caps,                 \* number of capture handles created so far
    sm_source_type,         \* self.source_type
    source_url,             \* self.source_url
    latest_frame,           \* self.latest_frame: a frame, NoFrame for None
    file_left,              \* frames the file capture has not yet delivered
    stop_thread,            \* self._stop_thread (Event)
    update_thread,          \* self.update_thread: a grab thread, NoThread for None
    grabbers,               \* every _update_loop thread started: its position
    open_result,            \* the dict returned by the last open_* call (history)
    last_grab,              \* the frame last stored by a grab thread since the
                            \* last open_* or stop call (history)
    read_result,            \* what the last read_frame call returned (history)
    \* ---- the engine's threads (engine.py) ----
    stop_event,             \* self.stop_event (Event)
    thread,                 \* self.thread: a loop thread, NoThread for None
    loops                   \* every _process_loop thread started: its position

trackerVars == <<tracks, frame_number, tracking_data, last_detections, evicted>>
engineVars  == <<counts, seen_ids, timeline, frame_count, source_type,
                 tracking_enabled, current_camera_id, is_running, loop_alive,
                 sm_running,
                 latest_broadcast_data, broadcast_seq, store,
                 pub_count, fresh, read_log, history, last_step, n_sources>>
wsVars      == <<clients, conn_order, bcast, runq, n_bcast>>
smVars      == <<cap, open_caps, n_caps, sm_source_type, source_url, latest_frame,
                 file_left, stop_thread, update_thread, grabbers, open_result,
                 last_grab, read_result>>
thrVars     == <<stop_event, thread, loops>>
vars        == <<trackerVars, engineVars, wsVars, smVars, thrVars>>

----------------------------------------------------------------------------
(* Generic helpers *)

Min(a, b) == IF a < b THEN a ELSE b
Max(a, b) == IF a > b THEN a ELSE b
Abs(a)    == IF a < 0 THEN -a ELSE a
Last(s)   == s[Len(s)]

\* The last n elements of s (all of s when it is shorter): Python's s[-n:].
LastN(s, n) == IF Len(s) <= n THEN s ELSE SubSeq(s, Len(s) - n + 1, Len(s))

RECURSIVE ISqrtFrom(_, _, _)
\* Largest r in lo..hi with r*r <= n, given lo*lo <= n.
ISqrtFrom(n, lo, hi) ==
    IF lo >= hi THEN lo
    ELSE LET mid == (lo + hi + 1) \div 2
         IN  IF mid * mid <= n THEN ISqrtFrom(n, mid, hi)
                               ELSE ISqrtFrom(n, lo, mid - 1)

\* floor(sqrt(n)) for 0 <= n < 2^30.
ISqrt(n) == ISqrtFrom(n, 0, 32767)

----------------------------------------------------------------------------
(* Detections: the detector's output, detection.py detect_vehicles *)

NoTrackId == 0

VehicleClasses == {"car", "motorcycle", "bus", "truck"}

Det(id, cls, box) == [track_id |-> id, class_name |-> cls, bbox |-> box]

BoxA   == <<80, 80, 120, 120>>      \* centroid (100, 100)
BoxB   == <<80, 30, 120, 70>>       \* centroid (100, 50)
BoxFar == <<381, 280, 420, 321>>    \* centroid (400.5, 300.5)

----------------------------------------------------------------------------
(* Track (tracker.py, class Track) *)

fps              == 25
pixels_per_meter == 50
max_age          == 30
TrajectoryMaxLen == 30
MinSamples       == 5
SpeedWindow      == 10
MaxSpeedKmh      == 200

\* Track._calculate_centroid, doubled.
Centroid(bbox) == <<bbox[1] + bbox[3], bbox[2] + bbox[4]>>

\* Mutant of TrajectoryAppend: a full deque drops the sample appended.
TrajectoryAppendKeepOldest(trajectory, sample) ==
    IF Len(trajectory) >= TrajectoryMaxLen THEN trajectory
    ELSE Append(trajectory, sample)

\* deque(maxlen=30).append: the oldest sample is dropped when full.
TrajectoryAppend(trajectory, sample) ==
    LET t == Append(trajectory, sample)
    IN  IF Len(t) > TrajectoryMaxLen THEN Tail(t) ELSE t

\* Track.__init__
NewTrack(id, cls, bbox, frame) ==
    [track_id          |-> id,
     class_name        |-> cls,
     bbox              |-> bbox,
     centroid          |-> Centroid(bbox),
     trajectory        |-> <<[pos |-> Centroid(bbox), frame |-> frame]>>,
     frames_tracked    |-> 1,
     speed_kmh         |-> 0,
     direction         |-> "Unknown",
     last_update_frame |-> frame]

\* Track.update
TrackUpdate(t, bbox, frame) ==
    [t EXCEPT !.bbox              = bbox,
              !.centroid          = Centroid(bbox),
              !.trajectory        = TrajectoryAppend(t.trajectory,
                                        [pos |-> Centroid(bbox), frame |-> frame]),
              !.frames_tracked    = t.frames_tracked + 1,
              !.last_update_frame = frame]

Directions == <<"Timur", "Timur Laut", "Utara", "Barat Laut",
                "Barat", "Barat Daya", "Selatan", "Tenggara">>

\* Mutant of SectorIndex: the angle is taken with y pointing up, atan2(dy, dx).
SectorIndexYUp(dx, dy) ==
    LET X == dx
        Y == dy
        a == Abs(X)
        b == Abs(Y)
        flat  == (a + b) * (a + b) < 2 * a * a
        steep == (a + b) * (a + b) < 2 * b * b
    IN  CASE X = 0 /\ Y = 0 -> 0
          [] flat  /\ X > 0 -> 0
          [] flat  /\ X < 0 -> 4
          [] steep /\ Y > 0 -> 2
          [] steep /\ Y < 0 -> 6
          [] OTHER -> IF Y > 0 THEN (IF X > 0 THEN 1 ELSE 3)
                               ELSE (IF X < 0 THEN 5 ELSE 7)

\* int((angle + 22.5) / 45) % 8 for angle = degrees(atan2(-dy, dx)) in [0, 360):
\* the 45-degree sector centred on the nearest axis or diagonal.  The sector
\* borders have slope tan(22.5) = sqrt(2) - 1, so b/a < tan(22.5) iff
\* (a+b)^2 < 2a^2; no integer vector lies on a border.  X is dx, Y is -dy.
SectorIndex(dx, dy) ==
    LET X == dx
        Y == -dy
        a == Abs(X)
        b == Abs(Y)
        flat  == (a + b) * (a + b) < 2 * a * a
        steep == (a + b) * (a + b) < 2 * b * b
    IN  CASE X = 0 /\ Y = 0 -> 0
          [] flat  /\ X > 0 -> 0
          [] flat  /\ X < 0 -> 4
          [] steep /\ Y > 0 -> 2
          [] steep /\ Y < 0 -> 6
          [] OTHER -> IF Y > 0 THEN (IF X > 0 THEN 1 ELSE 3)
                               ELSE (IF X < 0 THEN 5 ELSE 7)

\* Mutant of CalculateDirection: the test of the trajectory length is left out.
CalculateDirectionNoGuard(t) ==
    LET start_pos == t.trajectory[1].pos
        end_pos   == Last(t.trajectory).pos
        dx   == end_pos[1] - start_pos[1]
        dy   == end_pos[2] - start_pos[2]
        flow == IF dy > 0 THEN "MASUK" ELSE "KELUAR"
    IN  flow \o " (" \o Directions[SectorIndex(dx, dy) + 1] \o ")"

\* Track.calculate_direction
CalculateDirection(t) ==
    IF Len(t.trajectory) < MinSamples THEN "Unknown"
    ELSE LET start_pos == t.trajectory[1].pos
             end_pos   == Last(t.trajectory).pos
             dx   == end_pos[1] - start_pos[1]
             dy   == end_pos[2] - start_pos[2]
             flow == IF dy > 0 THEN "MASUK" ELSE "KELUAR"
         IN  flow \o " (" \o Directions[SectorIndex(dx, dy) + 1] \o ")"


\* Mutant of ClampSpeed: the clamp to [0, 200] is left out.
ClampSpeedNone(twice_tenths) == twice_tenths

\* max(0, min(200, speed_kmh)), on twice the speed in tenths of km/h.
ClampSpeed(twice_tenths) == Max(0, Min(2 * 10 * MaxSpeedKmh, twice_tenths))

\* Track.calculate_speed, in tenths of km/h.  With d the pixel distance,
\*   speed_kmh = d / ppm / (frames_elapsed / fps) * 3.6
\* and d = sqrt(S) / 2 for S the squared distance of the doubled centroids, so
\* twice the speed in tenths is sqrt(S) * (36 * fps / ppm) / frames_elapsed
\* (ppm divides 36 * fps for the tracker's calibration).  round(x, 1) is
\* floor(2 * 10 * x + 1) / 2 in tenths.
CalculateSpeed(t, f, ppm) ==
    IF Len(t.trajectory) < MinSamples \/ f <= 0 \/ ppm <= 0 THEN 0
    ELSE LET window_size == Min(SpeedWindow, Len(t.trajectory))
             first == t.trajectory[Len(t.trajectory) - window_size + 1]
             last  == Last(t.trajectory)
             dx == last.pos[1] - first.pos[1]
             dy == last.pos[2] - first.pos[2]
             scale == (36 * f) \div ppm
             frames_elapsed == last.frame - first.frame
         IN  IF frames_elapsed = 0 THEN 0
             ELSE LET twice == ISqrt((dx * dx + dy * dy) * scale * scale)
                                   \div frames_elapsed
                  IN  (ClampSpeed(twice) + 1) \div 2

\* Track.to_dict
ToDict(t) ==
    [track_id       |-> t.track_id,
     class          |-> t.class_name,
     bbox           |-> t.bbox,
     centroid       |-> t.centroid,
     speed_kmh      |-> t.speed_kmh,
     direction      |-> t.direction,
     frames_tracked |-> t.frames_tracked,
     trajectory     |-> LastN([i \in 1..Len(t.trajectory) |-> t.trajectory[i].pos], 10)]

----------------------------------------------------------------------------
(* VehicleTracker.update (tracker.py) *)

RECURSIVE ApplyDetections(_, _, _)
\* The loop over the detections: update the existing track or create one.
ApplyDetections(trks, dets, frame) ==
    IF dets = <<>> THEN trks
    ELSE LET det == Head(dets)
             id  == det.track_id
             next ==
                 IF id = NoTrackId THEN trks
                 ELSE IF id \in DOMAIN trks
                      THEN [trks EXCEPT ![id] = TrackUpdate(trks[id], det.bbox, frame)]
                      ELSE [k \in DOMAIN trks \cup {id} |->
                               IF k = id THEN NewTrack(id, det.class_name, det.bbox, frame)
                                         ELSE trks[k]]
         IN  ApplyDetections(next, Tail(dets), frame)

\* current_track_ids
CurrentTrackIds(dets) ==
    {dets[i].track_id : i \in 1..Len(dets)} \ {NoTrackId}


\* Mutant of StaleIds: a track is dropped one frame too late.
StaleIdsLate(trks, frame) ==
    {id \in DOMAIN trks : frame - trks[id].last_update_frame > max_age + 1}

\* stale_ids: the tracks not updated for more than max_age frames.
StaleIds(trks, frame) ==
    {id \in DOMAIN trks : frame - trks[id].last_update_frame > max_age}

RemoveStale(trks, frame) ==
    [id \in DOMAIN trks \ StaleIds(trks, frame) |-> trks[id]]

\* Direction and speed are recomputed for the tracks detected in this call.
Enrich(trks, ids) ==
    [id \in DOMAIN trks |->
        IF id \in ids
        THEN [trks[id] EXCEPT !.direction = CalculateDirection(trks[id]),
                              !.speed_kmh = CalculateSpeed(trks[id], fps, pixels_per_meter)]
        ELSE trks[id]]


RECURSIVE SnapshotsOfAll(_, _)
\* Mutant of SnapshotsOf: a snapshot for every track of the tracker.
SnapshotsOfAll(trks, ids) ==
    IF trks = <<>> THEN <<>>
    ELSE LET id == CHOOSE i \in DOMAIN trks : \A j \in DOMAIN trks : i <= j
         IN  <<ToDict(trks[id])>>
                 \o SnapshotsOfAll([k \in DOMAIN trks \ {id} |-> trks[k]], ids)

RECURSIVE SnapshotsOf(_, _)
\* tracking_data: one to_dict per id of current_track_ids still in self.tracks
\* (a set of small ints iterates in ascending order).
SnapshotsOf(trks, ids) ==
    IF ids \cap DOMAIN trks = {} THEN <<>>
    ELSE LET id == CHOOSE i \in ids \cap DOMAIN trks :
                       \A j \in ids \cap DOMAIN trks : i <= j
         IN  <<ToDict(trks[id])>> \o SnapshotsOf(trks, ids \ {id})

\* The tracks after update(detections) in frame `frame` (the incremented
\* self.frame_number).
TracksAfterUpdate(trks, dets, frame) ==
    Enrich(RemoveStale(ApplyDetections(trks, dets, frame), frame),
           CurrentTrackIds(dets))

\* VehicleTracker.update as a step on the tracker's state.
TrackerUpdate(dets) ==
    /\ frame_number' = frame_number + 1
    /\ tracks' = TracksAfterUpdate(tracks, dets, frame_number + 1)
    /\ tracking_data' = SnapshotsOf(tracks', CurrentTrackIds(dets))
    /\ last_detections' = dets
    /\ evicted' = (DOMAIN tracks \cup CurrentTrackIds(dets)) \ DOMAIN tracks'

----------------------------------------------------------------------------
(* DetectionEngine (services/engine.py) *)

TimelineCap   == 100
META_EVERY_N  == 5
DB_SAVE_INTERVAL == 60

NoCamera  == "none"
CameraIds == {"cam1"}

ZeroCounts == [c \in VehicleClasses |-> 0]

\* latest_broadcast_data = None
NoPayload == [kind |-> "none", pid |-> 0, seq |-> 0, meta |-> FALSE]

\* The payload built in step 7 of the loop; pid tells apart the dict objects.
FramePayload(pid, seq) ==
    [kind |-> "frame", pid |-> pid, seq |-> seq, meta |-> (seq % META_EVERY_N = 0)]

\* The payload _handle_file_end stores.
CompletePayload(pid) ==
    [kind |-> "complete", pid |-> pid, seq |-> 0, meta |-> FALSE]

\* detect_vehicles(frame, track=...): "track_id" is set only in tracking mode.
Detect(dets, track) ==
    IF track THEN dets
    ELSE [i \in 1..Len(dets) |-> [dets[i] EXCEPT !.track_id = NoTrackId]]


RECURSIVE UpdateCountsEverySighting(_, _, _)
\* Mutant of UpdateCounts: the seen_ids test is left out.
UpdateCountsEverySighting(cnt, seen, dets) ==
    IF dets = <<>> THEN <<cnt, seen>>
    ELSE LET det == Head(dets)
         IN  IF det.track_id /= NoTrackId
             THEN UpdateCountsEverySighting(
                      [cnt EXCEPT ![det.class_name] = cnt[det.class_name] + 1],
                      seen \cup {det.track_id}, Tail(dets))
             ELSE UpdateCountsEverySighting(cnt, seen, Tail(dets))

RECURSIVE UpdateCounts(_, _, _)
\* DetectionEngine._update_counts: <<counts, seen_ids>> after the loop over dets.
UpdateCounts(cnt, seen, dets) ==
    IF dets = <<>> THEN <<cnt, seen>>
    ELSE LET det == Head(dets)
             cls == det.class_name
             id  == det.track_id
         IN  IF id /= NoTrackId /\ id \notin seen
             THEN UpdateCounts([cnt EXCEPT ![cls] = cnt[cls] + 1],
                               seen \cup {id}, Tail(dets))
             ELSE UpdateCounts(cnt, seen, Tail(dets))

\* Mutant of CountEvery: one count per frame that has a detection.
CountEveryFrame(cnt, dets) ==
    IF dets = <<>> THEN cnt
    ELSE [cnt EXCEPT ![Head(dets).class_name] = cnt[Head(dets).class_name] + 1]

RECURSIVE CountEvery(_, _)
\* The loop of the tracking-disabled branch: every detection counts.
CountEvery(cnt, dets) ==
    IF dets = <<>> THEN cnt
    ELSE CountEvery([cnt EXCEPT ![Head(dets).class_name] = cnt[Head(dets).class_name] + 1],
                    Tail(dets))


\* Mutant of TimelineAppend: pop() instead of pop(0), the newest entry goes.
TimelineAppendPopLast(tl, n) ==
    LET t == Append(tl, n)
    IN  IF Len(t) > TimelineCap THEN SubSeq(t, 1, Len(t) - 1) ELSE t

\* Step 4 of the loop: append, then pop(0) when longer than 100.
TimelineAppend(tl, n) ==
    LET t == Append(tl, n)
    IN  IF Len(t) > TimelineCap THEN Tail(t) ELSE t


\* Mutant of Publish: an unread payload is kept, the new one is lost.
PublishKeepUnread(mailbox, payload) ==
    IF mailbox.kind = "none" THEN payload ELSE mailbox

\* with self._broadcast_lock: self.latest_broadcast_data = payload
Publish(mailbox, payload) == payload


\* Mutant of ReadAndClear: the read does not consume the payload.
ReadNoClear(mailbox) == <<mailbox, mailbox>>

\* get_broadcast_data: <<the value returned, the mailbox afterwards>>.
ReadAndClear(mailbox) == <<mailbox, NoPayload>>

\* save_counts(camera_id, name, counts): the upsert, or no change when the
\* connection or the statement fails (ok = FALSE).
SaveCounts(st, cam, cnt, ok) ==
    IF ok THEN [c \in DOMAIN st \cup {cam} |-> IF c = cam THEN cnt ELSE st[c]]
          ELSE st

\* last_step before any frame of the session.
NoStep == [kind |-> "none", dets |-> <<>>, seen_before |-> {},
           counts_before |-> ZeroCounts, seq |-> 0, save |-> "none"]

InitEngine ==
    /\ counts = ZeroCounts
    /\ seen_ids = {}
    /\ timeline = <<>>
    /\ frame_count = 0
    /\ source_type = "none"
    /\ tracking_enabled \in BOOLEAN
    /\ current_camera_id = NoCamera
    /\ is_running = FALSE
    /\ loop_alive = FALSE
    /\ sm_running = FALSE
    /\ latest_broadcast_data = NoPayload
    /\ broadcast_seq = 0
    /\ store = <<>>
    /\ pub_count = 0
    /\ fresh = <<>>
    /\ read_log = <<>>
    /\ history = <<>>
    /\ last_step = NoStep
    /\ n_sources = 0

\* What a call of save_counts can do: upsert and return True, return False
\* (no connection, or an error that the handler rolls back), or raise (the
\* rollback of the handler raises on a connection that was lost).
SaveOutcomes == {"ok", "failed", "raised"}

\* Step 5 of the loop saves when a camera is set and frame_count is a
\* multiple of DB_SAVE_INTERVAL.
SaveDue(fc) == current_camera_id /= NoCamera /\ fc % DB_SAVE_INTERVAL = 0

SavesAt(fc) == IF SaveDue(fc) THEN SaveOutcomes ELSE {"none"}

\* last_step for a frame with detections raw whose save did sv.
StepRecord(raw, sv) ==
    [kind |-> "frame", dets |-> Detect(raw, tracking_enabled),
     seen_before |-> seen_ids, counts_before |-> counts,
     seq |-> last_step.seq, save |-> sv]

\* Steps 2 to 5 of an iteration of _process_loop on a frame, with fc the
\* value of frame_count after line 159 and sv what the save of step 5 does.
StatsEffects(raw, fc, sv) ==
    LET dets == Detect(raw, tracking_enabled)
        upd  == UpdateCounts(counts, seen_ids, dets)
    IN  /\ frame_count' = fc
        /\ IF tracking_enabled
           THEN /\ TrackerUpdate(dets)
                /\ counts' = upd[1]
                /\ seen_ids' = upd[2]
           ELSE /\ UNCHANGED trackerVars
                /\ counts' = CountEvery(counts, dets)
                /\ UNCHANGED seen_ids
        /\ timeline' = TimelineAppend(timeline, Len(dets))
        /\ store' = IF SaveDue(fc)
                    THEN SaveCounts(store, current_camera_id, counts', sv = "ok")
                    ELSE store
        /\ history' = Append(history, Len(dets))
        /\ UNCHANGED <<source_type, tracking_enabled, current_camera_id, is_running,
                       sm_running, read_log, n_sources>>

\* Step 7 from the payload dict on: a frame payload with sequence number seq
\* is stored in the mailbox.
PublishEffects(seq) ==
    /\ latest_broadcast_data' =
           Publish(latest_broadcast_data, FramePayload(pub_count + 1, seq))
    /\ pub_count' = pub_count + 1
    /\ fresh' = Append(fresh, pub_count + 1)

\* The effects of one iteration of _process_loop on a frame, steps 1 to 7,
\* with fc the value of frame_count after line 159.
FrameEffects(raw, fc) ==
    \E sv \in SavesAt(fc) \ {"raised"} :
        /\ StatsEffects(raw, fc, sv)
        /\ broadcast_seq' = broadcast_seq + 1
        /\ PublishEffects(broadcast_seq + 1)
        /\ last_step' = [StepRecord(raw, sv) EXCEPT !.seq = broadcast_seq + 1]
        /\ UNCHANGED loop_alive

\* Where an iteration can raise: the detector call, the save of step 5, the
\* annotation of step 6.
RaisePoints == {"detect", "save", "annotate"}

\* An iteration that raises at `at`: what it did before is kept, nothing is
\* published.  The loop has no handler, so the exception ends the thread.
RaiseEffects(raw, fc, at) ==
    /\ IF at = "detect"
       THEN /\ frame_count' = fc
            /\ last_step' = [NoStep EXCEPT !.kind = "detect_raised",
                                           !.seq = last_step.seq]
            /\ UNCHANGED <<counts, seen_ids, timeline, store, history, source_type,
                           tracking_enabled, current_camera_id, is_running,
                           sm_running, read_log, n_sources>>
            /\ UNCHANGED trackerVars
       ELSE IF at = "save"
       THEN /\ SaveDue(fc)
            /\ StatsEffects(raw, fc, "raised")
            /\ last_step' = [StepRecord(raw, "raised") EXCEPT !.kind = "save_raised"]
       ELSE \E sv \in SavesAt(fc) \ {"raised"} :
                /\ StatsEffects(raw, fc, sv)
                /\ last_step' = [StepRecord(raw, sv) EXCEPT !.kind = "annotate_raised"]
    /\ UNCHANGED <<latest_broadcast_data, broadcast_seq, pub_count, fresh>>

\* One iteration of _process_loop that reads a new frame, as one step.
ProcessFrame(raw) ==
    /\ loop_alive
    /\ sm_running
    /\ FrameEffects(raw, frame_count + 1)
    /\ UNCHANGED <<wsVars, smVars, thrVars>>

\* One iteration of _process_loop that raises: the thread ends, is_running
\* is left as it was.
ProcessFrameRaises(raw, at) ==
    /\ loop_alive
    /\ sm_running
    /\ RaiseEffects(raw, frame_count + 1, at)
    /\ loop_alive' = FALSE
    /\ UNCHANGED <<wsVars, smVars, thrVars>>

\* An iteration whose read_frame returns no frame while the source is a file:
\* _handle_file_end.
\* Mutant of IsFileBacked: every source is taken for a file.
IsFileBackedAlways(st) == TRUE

\* self.stats["source_type"] == "file"
IsFileBacked(st) == st = "file"

\* _handle_file_end, but its call of stream_mgr.stop().
FileEndEffects ==
    /\ is_running' = FALSE
    /\ latest_broadcast_data' =
           Publish(latest_broadcast_data, CompletePayload(pub_count + 1))
    /\ pub_count' = pub_count + 1
    /\ fresh' = Append(fresh, pub_count + 1)
    /\ UNCHANGED <<counts, seen_ids, timeline, frame_count, source_type,
                   tracking_enabled, current_camera_id, loop_alive, broadcast_seq,
                   store, read_log, history, last_step, n_sources>>
    /\ UNCHANGED trackerVars

HandleFileEnd ==
    /\ loop_alive
    /\ sm_running
    /\ IsFileBacked(source_type)
    /\ FileEndEffects
    /\ sm_running' = FALSE
    /\ UNCHANGED <<wsVars, smVars, thrVars>>

\* get_broadcast_data, called by the broadcast loop.
GetBroadcastData ==
    LET r == ReadAndClear(latest_broadcast_data)
    IN  /\ latest_broadcast_data' = r[2]
        /\ read_log' = Append(read_log, [got |-> r[1].pid, fresh |-> fresh])
        /\ fresh' = <<>>
        /\ UNCHANGED <<counts, seen_ids, timeline, frame_count, source_type,
                       tracking_enabled, current_camera_id, is_running, loop_alive,
                       sm_running, broadcast_seq, store, pub_count, history,
                       last_step, n_sources>>
        /\ UNCHANGED <<trackerVars, wsVars, smVars, thrVars>>

\* stop_processing: the flags, the join, stream_mgr.stop(), the final save.
StopEffects(save_ok) ==
    /\ store' = IF current_camera_id /= NoCamera
                THEN SaveCounts(store, current_camera_id, counts, save_ok)
                ELSE store

\* stop_processing, but the join and its call of stream_mgr.stop().
StopStats ==
    /\ is_running' = FALSE
    /\ loop_alive' = FALSE
    /\ \E save_ok \in BOOLEAN : StopEffects(save_ok)
    /\ UNCHANGED <<counts, seen_ids, timeline, frame_count, source_type,
                   tracking_enabled, current_camera_id, latest_broadcast_data,
                   broadcast_seq, pub_count, fresh, read_log, history, last_step,
                   n_sources>>
    /\ UNCHANGED trackerVars

StopProcessing ==
    /\ StopStats
    /\ sm_running' = FALSE
    /\ UNCHANGED <<wsVars, smVars, thrVars>>

\* Mutant of ResetStats: seen_ids is not replaced.
ResetStatsKeepSeen ==
    /\ UNCHANGED seen_ids
    /\ timeline' = <<>>
    /\ frame_count' = 0
    /\ tracks' = <<>>
    /\ frame_number' = 0
    /\ broadcast_seq' = 0
    /\ history' = <<>>
    /\ last_step' = NoStep
    /\ UNCHANGED <<tracking_data, last_detections, evicted>>

\* _reset_stats
ResetStats ==
    /\ seen_ids' = {}
    /\ timeline' = <<>>
    /\ frame_count' = 0
    /\ tracks' = <<>>
    /\ frame_number' = 0
    /\ broadcast_seq' = 0
    /\ history' = <<>>
    /\ last_step' = NoStep
    /\ UNCHANGED <<tracking_data, last_detections, evicted>>

\* set_source_file / set_source_rtsp / set_source_webcam: stop, open, and when
\* the open succeeded reset the stats, resume the stored counts of an rtsp
\* camera, and start the loop.  load_ok = FALSE is a failed load_counts.
SetSourceStats(kind, cam, open_ok, save_ok, load_ok) ==
    /\ StopEffects(save_ok)
    /\ n_sources' = n_sources + 1
    /\ IF open_ok
       THEN /\ ResetStats
            /\ counts' = IF kind = "rtsp" /\ cam /= NoCamera /\ load_ok
                            /\ cam \in DOMAIN store'
                         THEN store'[cam] ELSE ZeroCounts
            /\ source_type' = kind
            /\ current_camera_id' = IF kind = "rtsp" THEN cam ELSE current_camera_id
            /\ is_running' = TRUE
            /\ loop_alive' = TRUE
       ELSE /\ is_running' = FALSE
            /\ loop_alive' = FALSE
            /\ UNCHANGED <<counts, seen_ids, timeline, frame_count, source_type,
                           current_camera_id, broadcast_seq, history, last_step>>
            /\ UNCHANGED trackerVars
    /\ UNCHANGED <<tracking_enabled, latest_broadcast_data, pub_count, fresh, read_log>>

\* set_source_* as one step, with the stream manager reduced to is_running.
SetSource(kind, cam, open_ok, save_ok, load_ok) ==
    /\ SetSourceStats(kind, cam, open_ok, save_ok, load_ok)
    /\ sm_running' = open_ok
    /\ UNCHANGED <<wsVars, smVars, thrVars>>


----------------------------------------------------------------------------
(* ConnectionManager (services/websocket.py) on the asyncio event loop.    *)
(* The loop runs the callbacks of its ready queue one at a time, in FIFO   *)
(* order; a coroutine runs without interruption from one await to the      *)
(* next.  asyncio.gather wraps each coroutine in a task whose first step   *)
(* is appended to the queue: the body of _send_with_backpressure starts    *)
(* only when that step runs.  runq holds the calls of broadcast() that are *)
(* ready to run and the first steps of the send tasks; the connection      *)
(* handlers and the completions of socket writes run whenever the outside  *)
(* world makes them ready.                                                 *)

Viewers       == {"v1", "v2"}
MaxBroadcasts == 2

Broadcasts == 1..MaxBroadcasts

\* ClientState.__init__
NewClientState == [conn |-> "new", ready |-> TRUE, frames_sent |-> 0, frames_dropped |-> 0]

Entry(kind, b, v) == [kind |-> kind, b |-> b, v |-> v]

IdleBroadcast == [pc |-> "idle", ready_at_call |-> <<>>, tasks |-> <<>>]

InitWS ==
    /\ clients = [v \in Viewers |-> NewClientState]
    /\ conn_order = <<>>
    /\ bcast = [b \in Broadcasts |-> IdleBroadcast]
    /\ runq = <<>>
    /\ n_bcast = 0

SeqToSet(q) == {q[i] : i \in 1..Len(q)}

\* The sequence q without its elements outside keep.
RECURSIVE Filter(_, _)
Filter(q, keep) ==
    IF q = <<>> THEN <<>>
    ELSE IF Head(q) \in keep THEN <<Head(q)>> \o Filter(Tail(q), keep)
                             ELSE Filter(Tail(q), keep)

\* The send tasks of call b that have not finished.
Unfinished(bc) == {v \in DOMAIN bc.tasks : bc.tasks[v] \in {"created", "sending"}}

\* The send_json calls in flight for viewer v: started and not yet returned.
InFlight(v) ==
    {b \in Broadcasts : v \in DOMAIN bcast[b].tasks /\ bcast[b].tasks[v] = "sending"}

\* The viewers broadcast() creates a send coroutine for: the ready ones, in
\* the order of list(self.clients.items()).
ReadyClients(cl, order) == Filter(order, {v \in Viewers : cl[v].ready})

\* The else branch of the loop in broadcast(): frames_dropped += 1.
DropFrames(cl, order) ==
    [v \in Viewers |->
        IF v \in SeqToSet(order) /\ ~cl[v].ready
        THEN [cl[v] EXCEPT !.frames_dropped = @ + 1]
        ELSE cl[v]]


\* Mutant of AfterSend: frames_sent is counted in the finally block.
AfterSendCountAlways(c, ok) ==
    [c EXCEPT !.frames_sent = @ + 1, !.ready = TRUE]

\* The statements of _send_with_backpressure after send_json returned (ok)
\* or raised (~ok): frames_sent += 1 on success, ready = True in any case.
AfterSend(c, ok) ==
    [c EXCEPT !.frames_sent = IF ok THEN @ + 1 ELSE @,
              !.ready = TRUE]

\* ---- the connection handlers ----

\* ConnectionManager.connect, after websocket.accept().
Connect(v) ==
    /\ clients[v].conn = "new"
    /\ clients' = [clients EXCEPT ![v] = [NewClientState EXCEPT !.conn = "open"]]
    /\ conn_order' = Append(conn_order, v)
    /\ UNCHANGED <<bcast, runq, n_bcast>>
    /\ UNCHANGED <<trackerVars, engineVars, smVars, thrVars>>

\* ConnectionManager.disconnect: self.clients.pop(cid).
Disconnect(v) ==
    /\ clients[v].conn = "open"
    /\ clients' = [clients EXCEPT ![v].conn = "closed"]
    /\ conn_order' = Filter(conn_order, Viewers \ {v})
    /\ UNCHANGED <<bcast, runq, n_bcast>>
    /\ UNCHANGED <<trackerVars, engineVars, smVars, thrVars>>

\* ---- broadcast ----

\* Some coroutine becomes ready to call manager.broadcast(message).
CallBroadcast ==
    /\ n_bcast < MaxBroadcasts
    /\ n_bcast' = n_bcast + 1
    /\ bcast' = [bcast EXCEPT ![n_bcast + 1].pc = "called"]
    /\ runq' = Append(runq, Entry("broadcast", n_bcast + 1, ""))
    /\ UNCHANGED <<clients, conn_order>>
    /\ UNCHANGED <<trackerVars, engineVars, smVars, thrVars>>

\* The queue entries asyncio.gather makes for the tasks of call b.
RECURSIVE TaskEntries(_, _)
TaskEntries(b, vs) ==
    IF vs = <<>> THEN <<>>
    ELSE <<Entry("task", b, Head(vs))>> \o TaskEntries(b, Tail(vs))

\* ConnectionManager.broadcast up to `await asyncio.gather(*tasks)`; it
\* returns at once when there are no clients or no ready client.
RunBroadcast ==
    /\ runq /= <<>> /\ Head(runq).kind = "broadcast"
    /\ LET b       == Head(runq).b
           targets == ReadyClients(clients, conn_order)
       IN  /\ clients' = DropFrames(clients, conn_order)
           /\ bcast' = [bcast EXCEPT ![b] =
                  [pc |-> IF targets = <<>> THEN "done" ELSE "gather",
                   ready_at_call |-> [v \in SeqToSet(conn_order) |-> clients[v].ready],
                   tasks |-> [v \in SeqToSet(targets) |-> "created"]]]
           /\ runq' = Tail(runq) \o TaskEntries(b, targets)
    /\ UNCHANGED <<conn_order, n_bcast>>
    /\ UNCHANGED <<trackerVars, engineVars, smVars, thrVars>>

\* First step of _send_with_backpressure: ready = False, then send_json
\* suspends on the socket.
RunTaskSuspend ==
    /\ runq /= <<>> /\ Head(runq).kind = "task"
    /\ LET b == Head(runq).b
           v == Head(runq).v
       IN  /\ clients' = [clients EXCEPT ![v].ready = FALSE]
           /\ bcast' = [bcast EXCEPT ![b].tasks[v] = "sending"]
    /\ runq' = Tail(runq)
    /\ UNCHANGED <<conn_order, n_bcast>>
    /\ UNCHANGED <<trackerVars, engineVars, smVars, thrVars>>

\* First step of _send_with_backpressure when send_json returns (ok) or
\* raises (~ok) without suspending: the whole body runs in this step.
RunTaskThrough(ok) ==
    /\ runq /= <<>> /\ Head(runq).kind = "task"
    /\ LET b == Head(runq).b
           v == Head(runq).v
       IN  /\ clients' = [clients EXCEPT ![v] = AfterSend([clients[v] EXCEPT !.ready = FALSE], ok)]
           /\ bcast' = [bcast EXCEPT ![b].tasks[v] = IF ok THEN "ok" ELSE "failed"]
    /\ runq' = Tail(runq)
    /\ UNCHANGED <<conn_order, n_bcast>>
    /\ UNCHANGED <<trackerVars, engineVars, smVars, thrVars>>

\* The suspended send_json of task (b, v) returns (ok) or raises (~ok) and
\* the task runs the rest of _send_with_backpressure.
SendDone(b, v, ok) ==
    /\ v \in DOMAIN bcast[b].tasks
    /\ bcast[b].tasks[v] = "sending"
    /\ clients' = [clients EXCEPT ![v] = AfterSend(clients[v], ok)]
    /\ bcast' = [bcast EXCEPT ![b].tasks[v] = IF ok THEN "ok" ELSE "failed"]
    /\ UNCHANGED <<conn_order, runq, n_bcast>>
    /\ UNCHANGED <<trackerVars, engineVars, smVars, thrVars>>

\* gather is done when every task of call b has finished: broadcast() returns.
BroadcastReturn(b) ==
    /\ bcast[b].pc = "gather"
    /\ Unfinished(bcast[b]) = {}
    /\ bcast' = [bcast EXCEPT ![b].pc = "done"]
    /\ UNCHANGED <<clients, conn_order, runq, n_bcast>>
    /\ UNCHANGED <<trackerVars, engineVars, smVars, thrVars>>

\* The event loop runs the callback at the head of its queue.
RunNext ==
    \/ RunBroadcast
    \/ RunTaskSuspend
    \/ \E ok \in BOOLEAN : RunTaskThrough(ok)

NextWS ==
    \/ \E v \in Viewers : Connect(v)
    \/ \E v \in Viewers : Disconnect(v)
    \/ CallBroadcast
    \/ RunNext
    \/ \E b \in Broadcasts, v \in Viewers, ok \in BOOLEAN : SendDone(b, v, ok)
    \/ \E b \in Broadcasts : BroadcastReturn(b)

----------------------------------------------------------------------------
(* The tracker on its own: update() called once per frame by its owner.    *)
(* The detector reports vehicles during the first BurstFrames frames, then *)
(* nothing for max_age frames, then vehicles again for TailFrames frames,  *)
(* so that tracks age out both in calls that carry detections and in calls *)
(* that carry none.                                                        *)

BurstFrames == 2
TailFrames  == 1

Rep5(d) == <<d, d, d, d, d>>

TrackerDetLists ==
    { <<>>,
      <<Det(1, "car", BoxA)>>,
      <<Det(1, "car", BoxB)>>,
      <<Det(1, "car", BoxFar)>>,
      <<Det(2, "truck", BoxA)>>,
      <<Det(NoTrackId, "car", BoxA)>>,
      <<Det(2, "truck", BoxB), Det(NoTrackId, "car", BoxB)>>,
      <<Det(1, "car", BoxA), Det(1, "car", BoxB)>>,
      <<Det(1, "car", BoxA), Det(2, "truck", BoxB)>>,
      Rep5(Det(1, "car", BoxA)) }

LastTrackerFrame == BurstFrames + max_age + TailFrames

\* What the detector may return for frame f.
DetectorOutputs(f) ==
    IF BurstFrames < f /\ f <= BurstFrames + max_age
    THEN {<<>>}
    ELSE TrackerDetLists

InitTracker ==
    /\ tracks = <<>>
    /\ frame_number = 0
    /\ tracking_data = <<>>
    /\ last_detections = <<>>
    /\ evicted = {}

\* One update() call.
Update ==
    /\ frame_number < LastTrackerFrame
    /\ \E dets \in DetectorOutputs(frame_number + 1) : TrackerUpdate(dets)
    /\ UNCHANGED <<engineVars, wsVars, smVars, thrVars>>

NextTracker == Update

----------------------------------------------------------------------------
(* One vehicle in front of the tracker: the detector reports track id 1    *)
(* in every frame, 5 pixels from where it was or at the same place.  The   *)
(* vehicle may turn during the first TurnFrames frames and then keeps its  *)
(* velocity; it is detected as long as its box lies at non-negative        *)
(* coordinates, and for more frames than a trajectory holds.               *)

MotionFrames == 32
TurnFrames   == 4

MotionStart == <<100, 100>>
MotionSteps == {<<0, -5>>, <<0, 5>>, <<5, 0>>, <<-5, -5>>, <<0, 0>>}

\* The box of a vehicle whose centre is p, of the size of BoxA.
BoxAround(p) == <<p[1] - 20, p[2] - 20, p[1] + 20, p[2] + 20>>

\* The centre of the last and of the last but one sample, in pixels.
SamplePos(trajectory, back) ==
    LET c == trajectory[Len(trajectory) - back].pos
    IN  <<c[1] \div 2, c[2] \div 2>>

\* Where the detector may see the vehicle in the next frame.
MotionPositions ==
    IF 1 \notin DOMAIN tracks THEN {MotionStart}
    ELSE LET tr == tracks[1].trajectory
             p  == SamplePos(tr, 0)
             steps == IF frame_number < TurnFrames \/ Len(tr) < 2
                      THEN MotionSteps
                      ELSE {<<p[1] - SamplePos(tr, 1)[1], p[2] - SamplePos(tr, 1)[2]>>}
         IN  {<<p[1] + s[1], p[2] + s[2]>> : s \in steps}

\* The detections of a frame that shows the vehicle at p; in its first frame
\* the detector may report it twice.
MotionDetections(p) ==
    LET d == Det(1, "car", BoxAround(p))
    IN  IF frame_number = 0 THEN {<<d>>, <<d, d>>} ELSE {<<d>>}

MotionUpdate ==
    /\ frame_number < MotionFrames
    /\ \E p \in MotionPositions : \E dets \in MotionDetections(p) :
           /\ p[1] >= 20 /\ p[2] >= 20
           /\ TrackerUpdate(dets)
    /\ UNCHANGED <<engineVars, wsVars, smVars, thrVars>>

NextMotion == MotionUpdate

----------------------------------------------------------------------------
(* The engine: sources are switched, frames processed, the mailbox read.   *)

MaxFrames  == 2
MaxReads   == 2
MaxSources == 1

EngineDetLists ==
    { <<>>,
      <<Det(1, "car", BoxA)>>,
      <<Det(1, "truck", BoxB), Det(2, "truck", BoxB)>>,
      <<Det(2, "car", BoxA), Det(NoTrackId, "car", BoxB), Det(2, "truck", BoxA)>> }

Frame ==
    /\ pub_count < MaxFrames
    /\ \E raw \in EngineDetLists : ProcessFrame(raw)

\* The detector, the store or the annotation fails.
Raise ==
    /\ pub_count < MaxFrames
    /\ \E raw \in EngineDetLists, at \in RaisePoints : ProcessFrameRaises(raw, at)

FileEnd == HandleFileEnd

Read ==
    /\ Len(read_log) < MaxReads
    /\ GetBroadcastData

Switch ==
    /\ n_sources < MaxSources
    /\ \E kind \in {"file", "rtsp", "webcam"}, cam \in CameraIds \cup {NoCamera},
          open_ok \in BOOLEAN, save_ok \in BOOLEAN, load_ok \in BOOLEAN :
          SetSource(kind, cam, open_ok, save_ok, load_ok)

Stop == StopProcessing

NextEngine == Frame \/ Raise \/ FileEnd \/ Read \/ Switch \/ Stop

----------------------------------------------------------------------------
(* A long session: one source, more frames than the timeline holds.  The   *)
(* detector is the stub of the file scenario (one car with track id 1 on   *)
(* the first StubCarFrames frames, nothing afterwards) for the first       *)
(* TimelineCap frames and free afterwards.                                 *)

LongRunFrames == 102
StubCarFrames == 50

StubDetections(n) == IF n <= StubCarFrames THEN <<Det(1, "car", BoxA)>> ELSE <<>>

LongRunDetections(n) ==
    IF n <= TimelineCap THEN {StubDetections(n)} ELSE EngineDetLists

LongStart ==
    /\ n_sources = 0
    /\ \E kind \in {"file", "rtsp", "webcam"}, cam \in CameraIds \cup {NoCamera} :
          SetSource(kind, cam, TRUE, TRUE, TRUE)

LongFrame ==
    /\ frame_count < LongRunFrames
    /\ \E raw \in LongRunDetections(frame_count + 1) : ProcessFrame(raw)

LongRaise ==
    /\ frame_count < LongRunFrames
    /\ \E raw \in LongRunDetections(frame_count + 1), at \in RaisePoints :
           ProcessFrameRaises(raw, at)

LongFileEnd == HandleFileEnd

NextLongRun == LongStart \/ LongFrame \/ LongRaise \/ LongFileEnd

----------------------------------------------------------------------------
(* StreamManager (stream_manager.py).  A capture handle is a record with   *)
(* the number of its creation and the kind of source it reads; open_caps   *)
(* holds the handles that cv2 has open, that is, created and opened and    *)
(* not yet released.  open_*, stop and one pass of the grab loop are one   *)
(* step each; the grab thread blocks inside the creation of the capture of *)
(* a reconnect (the RTSP timeout is 15 s), which is where the 1 s join of  *)
(* stop() can expire.                                                      *)

\* The number of frames of the video file, and the bounds on the number of
\* open_* calls and of capture handles created.
FileFrames  == 1
MaxOpens    == 2
MaxCaptures == 3

NoCapture == [id |-> 0, kind |-> "none"]
NoFrame   == 0
NoThread  == 0
\* A frame of a camera or webcam, apart from the frames 1..FileFrames of a file.
LiveFrame == -1

Capture(id, kind) == [id |-> id, kind |-> kind]

\* The engine's variables but stream_mgr.is_running.
engineRest == <<counts, seen_ids, timeline, frame_count, source_type,
                tracking_enabled, current_camera_id, is_running, loop_alive,
                latest_broadcast_data, broadcast_seq, store,
                pub_count, fresh, read_log, history, last_step, n_sources>>

NoResult == [seq |-> 0, op |-> "none", outcome |-> <<>>, success |-> FALSE,
             transport |-> "", error |-> "", tried |-> <<>>, created |-> {}]

\* read_result before any read_frame call; tick tells a call from the next.
NoRead == [tick |-> FALSE, ret |-> FALSE, frame |-> NoFrame]

InitSM ==
    /\ cap = NoCapture
    /\ open_caps = {}
    /\ n_caps = 0
    /\ sm_source_type = "none"
    /\ source_url = "none"
    /\ latest_frame = NoFrame
    /\ file_left = 0
    /\ stop_thread = FALSE
    /\ update_thread = NoThread
    /\ grabbers = <<>>
    /\ open_result = NoResult
    /\ last_grab = NoFrame
    /\ read_result = NoRead

\* A grab thread: where it is (pc) and, inside a reconnect, the transport of
\* the capture it is creating.  "loop" and "retry" are both the top of the
\* while loop; "retry" tells that no read has succeeded since the thread's
\* last reconnect.
NewGrabber == [pc |-> "loop", transport |-> ""]
AtLoopTop  == {"loop", "retry"}

\* Mutant of ReconnectTransport: the transport the session was opened with.
ReconnectTransportOfSession(opened) == IF opened = "UDP" THEN "udp" ELSE "tcp"

\* _create_rtsp_capture(self.source_url, "tcp") in _handle_reconnect; opened
\* is the transport the open_rtsp call reported.
ReconnectTransport(opened) == "tcp"

\* _stop_thread_internal: the join returns at once for a thread that is at the
\* top of its loop (it sees the event and returns); a thread inside a
\* reconnect outlives the join.
GrabbersAfterStop(g, ut) ==
    IF ut /= NoThread /\ g[ut].pc \in AtLoopTop THEN [g EXCEPT ![ut].pc = "done"] ELSE g

\* stop()
SmStopEffects ==
    /\ stop_thread' = TRUE
    /\ grabbers' = GrabbersAfterStop(grabbers, update_thread)
    /\ update_thread' = NoThread
    /\ sm_running' = FALSE
    /\ open_caps' = open_caps \ {cap}
    /\ cap' = NoCapture
    /\ latest_frame' = NoFrame
    /\ last_grab' = NoFrame
    /\ UNCHANGED <<n_caps, sm_source_type, source_url, file_left, open_result,
                   read_result>>

\* The outcome of creating a capture and reading its first frame.
AttemptOutcomes == {"noopen", "noframe", "ok"}

Transports == <<"tcp", "udp">>

\* transport.upper()
Upper == [tcp |-> "TCP", udp |-> "UDP", file |-> "", webcam |-> ""]

RECURSIVE TryTransportsNoFallback(_, _, _, _, _)
\* Mutant of TryTransports: only the first transport is tried.
TryTransportsNoFallback(ts, outcome, kind, next_id, acc) ==
    LET t == Head(ts)
        tried == Append(acc.tried, t)
    IN  IF outcome[t] = "ok"
        THEN [success |-> TRUE, transport |-> Upper[t], error |-> "",
              cap |-> Capture(next_id, kind), tried |-> tried,
              created |-> acc.created \cup {Capture(next_id, kind)},
              released |-> acc.released]
        ELSE [success |-> FALSE, transport |-> "", error |-> "Failed to connect",
              cap |-> NoCapture, tried |-> tried,
              created |-> acc.created, released |-> acc.released]

RECURSIVE TryTransportsNoRelease(_, _, _, _, _)
\* Mutant of TryTransports: a capture that yields no frame is not released.
TryTransportsNoRelease(ts, outcome, kind, next_id, acc) ==
    IF ts = <<>>
    THEN [success |-> FALSE, transport |-> "", error |-> "Failed to connect",
          cap |-> NoCapture, tried |-> acc.tried, created |-> acc.created,
          released |-> acc.released]
    ELSE LET t == Head(ts)
             tried == Append(acc.tried, t)
             c == Capture(next_id, kind)
         IN  IF outcome[t] = "noopen"
             THEN TryTransportsNoRelease(Tail(ts), outcome, kind, next_id,
                                         [acc EXCEPT !.tried = tried])
             ELSE IF outcome[t] = "ok"
             THEN [success |-> TRUE, transport |-> Upper[t], error |-> "",
                   cap |-> c, tried |-> tried,
                   created |-> acc.created \cup {c}, released |-> acc.released]
             ELSE TryTransportsNoRelease(Tail(ts), outcome, kind, next_id + 1,
                      [tried |-> tried, created |-> acc.created \cup {c},
                       released |-> acc.released])

RECURSIVE TryTransports(_, _, _, _, _)
\* The for loop of open_rtsp over the transports ts: a capture is created
\* (it holds a handle only when it opened), its first frame is read, and a
\* capture that yields no frame is released.  The result: the dict returned,
\* the capture kept, the transports tried, the handles created and released.
TryTransports(ts, outcome, kind, next_id, acc) ==
    IF ts = <<>>
    THEN [success |-> FALSE, transport |-> "", error |-> "Failed to connect",
          cap |-> NoCapture, tried |-> acc.tried, created |-> acc.created,
          released |-> acc.released]
    ELSE LET t == Head(ts)
             tried == Append(acc.tried, t)
             c == Capture(next_id, kind)
         IN  IF outcome[t] = "noopen"
             THEN TryTransports(Tail(ts), outcome, kind, next_id,
                                [acc EXCEPT !.tried = tried])
             ELSE IF outcome[t] = "ok"
             THEN [success |-> TRUE, transport |-> Upper[t], error |-> "",
                   cap |-> c, tried |-> tried,
                   created |-> acc.created \cup {c}, released |-> acc.released]
             ELSE TryTransports(Tail(ts), outcome, kind, next_id + 1,
                      [tried |-> tried, created |-> acc.created \cup {c},
                       released |-> acc.released \cup {c}])

NoAttempts == [tried |-> <<>>, created |-> {}, released |-> {}]


\* open_file: the capture is kept when it opened; no frame is read.
FileAttempt(o, next_id) ==
    IF o = "ok"
    THEN [success |-> TRUE, transport |-> "", error |-> "",
          cap |-> Capture(next_id, "file"), tried |-> <<>>,
          created |-> {Capture(next_id, "file")}, released |-> {}]
    ELSE [success |-> FALSE, transport |-> "", error |-> "Failed to open video file",
          cap |-> NoCapture, tried |-> <<>>, created |-> {}, released |-> {}]

\* open_webcam: the capture is kept when it opened and yielded a frame, and
\* released when it opened and yielded none.
WebcamAttempt(o, next_id) ==
    LET c == Capture(next_id, "webcam")
    IN  IF o = "ok"
        THEN [success |-> TRUE, transport |-> "", error |-> "",
              cap |-> c, tried |-> <<>>, created |-> {c}, released |-> {}]
        ELSE IF o = "noframe"
        THEN [success |-> FALSE, transport |-> "", error |-> "opened but no frames",
              cap |-> NoCapture, tried |-> <<>>, created |-> {c}, released |-> {c}]
        ELSE [success |-> FALSE, transport |-> "", error |-> "Failed to open camera",
              cap |-> NoCapture, tried |-> <<>>, created |-> {}, released |-> {}]

\* The attempt of open_<kind> under the outcomes o of the captures it creates.
Attempt(kind, o, next_id) ==
    IF kind = "rtsp" THEN TryTransports(Transports, o, "rtsp", next_id, NoAttempts)
    ELSE IF kind = "file" THEN FileAttempt(o, next_id)
    ELSE WebcamAttempt(o, next_id)

\* The outcomes open_<kind> can meet.
OutcomesOf(kind) ==
    IF kind = "rtsp" THEN [{"tcp", "udp"} -> AttemptOutcomes]
    ELSE IF kind = "file" THEN {"noopen", "ok"}
    ELSE AttemptOutcomes

\* open_rtsp / open_file / open_webcam: stop(), the attempt, and on success
\* the new state under the lock and _start_thread.
SmOpenEffects(kind, o) ==
    LET r == Attempt(kind, o, n_caps + 1)
        g == GrabbersAfterStop(grabbers, update_thread)
    IN  /\ stop_thread' = ~r.success
        /\ grabbers' = IF r.success THEN Append(g, NewGrabber) ELSE g
        /\ update_thread' = IF r.success THEN Len(g) + 1 ELSE NoThread
        /\ cap' = r.cap
        /\ n_caps' = n_caps + Cardinality(r.created)
        /\ open_caps' = ((open_caps \ {cap}) \cup r.created) \ r.released
        /\ sm_source_type' = IF r.success THEN kind ELSE sm_source_type
        /\ source_url' = IF r.success THEN "url" ELSE source_url
        /\ sm_running' = r.success
        /\ latest_frame' = NoFrame
        /\ last_grab' = NoFrame
        /\ UNCHANGED read_result
        /\ file_left' = IF r.success /\ kind = "file" THEN FileFrames ELSE file_left
        /\ open_result' = [seq |-> open_result.seq + 1, op |-> kind, outcome |-> o,
                           success |-> r.success, transport |-> r.transport,
                           error |-> r.error, tried |-> r.tried,
                           created |-> r.created]

SourceKinds == {"file", "rtsp", "webcam"}

\* A call of open_file, open_rtsp or open_webcam from outside the engine.
SmOpen(kind, o) ==
    /\ SmOpenEffects(kind, o)
    /\ UNCHANGED <<trackerVars, engineRest, wsVars, thrVars>>

\* A call of stop() from outside the engine.
SmStop ==
    /\ SmStopEffects
    /\ UNCHANGED <<trackerVars, engineRest, wsVars, thrVars>>


\* Mutant of ReadFrame: the frame returned is taken out of the slot.
ReadFrameTake(running, lf) ==
    IF ~running \/ lf = NoFrame
    THEN [ret |-> FALSE, frame |-> NoFrame, kept |-> lf]
    ELSE [ret |-> TRUE, frame |-> lf, kept |-> NoFrame]

\* read_frame under the lock: what it returns (ret, a copy of latest_frame)
\* and the latest_frame it leaves.
ReadFrame(running, lf) ==
    IF ~running \/ lf = NoFrame
    THEN [ret |-> FALSE, frame |-> NoFrame, kept |-> lf]
    ELSE [ret |-> TRUE, frame |-> lf, kept |-> lf]

\* A call of read_frame from outside the engine.
SmRead ==
    LET r == ReadFrame(sm_running, latest_frame)
    IN  /\ read_result' = [tick |-> ~read_result.tick, ret |-> r.ret, frame |-> r.frame]
        /\ latest_frame' = r.kept
        /\ UNCHANGED <<cap, open_caps, n_caps, sm_source_type, source_url, file_left,
                       stop_thread, update_thread, grabbers, open_result, last_grab,
                       sm_running>>
        /\ UNCHANGED <<trackerVars, engineRest, wsVars, thrVars>>

\* cap.read() can deliver a frame: the handle is open and, for a file, frames
\* are left.
CanRead == cap \in open_caps /\ (cap.kind = "file" => file_left > 0)

\* One pass of _update_loop with a capture and is_running set: cap.read(),
\* then either the new latest_frame or, for an rtsp source, the start of
\* _handle_reconnect (the old capture is released, self.cap still names it).
\* A failed read of a file or webcam changes nothing.
GrabRead(t, ok) ==
    /\ t \in DOMAIN grabbers
    /\ grabbers[t].pc \in AtLoopTop
    /\ ~stop_thread
    /\ cap /= NoCapture
    /\ sm_running
    /\ ok => CanRead
    /\ (cap.kind = "file" /\ CanRead) => ok
    /\ IF ok
       THEN /\ latest_frame' = IF cap.kind = "file"
                               THEN FileFrames - file_left + 1 ELSE LiveFrame
            /\ last_grab' = latest_frame'
            /\ file_left' = IF cap.kind = "file" THEN file_left - 1 ELSE file_left
            /\ grabbers' = [grabbers EXCEPT ![t].pc = "loop"]
            /\ UNCHANGED open_caps
       ELSE /\ sm_source_type = "rtsp"
            /\ source_url /= "none"
            /\ open_caps' = open_caps \ {cap}
            /\ grabbers' = [grabbers EXCEPT ![t] =
                   [pc |-> "creating",
                    transport |-> ReconnectTransport(open_result.transport)]]
            /\ UNCHANGED <<latest_frame, last_grab, file_left>>
    /\ UNCHANGED <<cap, n_caps, sm_source_type, source_url, stop_thread,
                   update_thread, open_result, read_result, sm_running>>
    /\ UNCHANGED <<trackerVars, engineRest, wsVars, thrVars>>

\* The end of _handle_reconnect: the capture was created over TCP and, when
\* it opened, is swapped in under the lock.
GrabReconnect(t, ok) ==
    /\ t \in DOMAIN grabbers
    /\ grabbers[t].pc = "creating"
    /\ IF ok
       THEN /\ n_caps < MaxCaptures
            /\ cap' = Capture(n_caps + 1, "rtsp")
            /\ open_caps' = open_caps \cup {Capture(n_caps + 1, "rtsp")}
            /\ n_caps' = n_caps + 1
       ELSE UNCHANGED <<cap, open_caps, n_caps>>
    /\ grabbers' = [grabbers EXCEPT ![t] = [pc |-> "retry", transport |-> ""]]
    /\ UNCHANGED <<sm_source_type, source_url, latest_frame, file_left, stop_thread,
                   update_thread, open_result, last_grab, read_result, sm_running>>
    /\ UNCHANGED <<trackerVars, engineRest, wsVars, thrVars>>

\* The grab loop sees _stop_thread set and returns.
GrabExit(t) ==
    /\ t \in DOMAIN grabbers
    /\ grabbers[t].pc \in AtLoopTop
    /\ stop_thread
    /\ grabbers' = [grabbers EXCEPT ![t].pc = "done"]
    /\ UNCHANGED <<cap, open_caps, n_caps, sm_source_type, source_url, latest_frame,
                   file_left, stop_thread, update_thread, open_result, last_grab,
                   read_result, sm_running>>
    /\ UNCHANGED <<trackerVars, engineRest, wsVars, thrVars>>

\* A step of grab thread t.
GrabThread(t) ==
    \/ \E ok \in BOOLEAN : GrabRead(t, ok)
    \/ \E ok \in BOOLEAN : GrabReconnect(t, ok)
    \/ GrabExit(t)

GrabStep == \E t \in DOMAIN grabbers : GrabThread(t)

----------------------------------------------------------------------------
(* The stream manager driven from outside: any sequence of open_* and stop *)
(* calls, interleaved with the grab threads.                               *)

StreamOpen ==
    /\ open_result.seq < MaxOpens
    /\ \E kind \in SourceKinds : \E o \in OutcomesOf(kind) : SmOpen(kind, o)

StreamStop == SmStop

StreamRead == SmRead

NextStream == StreamOpen \/ StreamStop \/ StreamRead \/ GrabStep

\* The stream manager with its grab threads and no reader.
NextGrabbing == StreamOpen \/ StreamStop \/ GrabStep

----------------------------------------------------------------------------
(* The engine with its threads.  set_source_* and stop_processing are one  *)
(* step each; an iteration of _process_loop is two steps, the part up to   *)
(* the detector call and the part from its return, so that a control call  *)
(* can find the loop inside the detector: there the 3 s join expires.      *)
(* Where two loops run at once, the part from the detector's return is     *)
(* taken in two steps, up to the increment of _broadcast_seq (LoopStats)   *)
(* and from the building of the payload on (LoopPublish).                  *)

MaxSessSources == 2
MaxSessFrames  == 1

SessDetLists == {<<>>, <<Det(1, "car", BoxA)>>}

\* id(frame) is the address of the array read_frame returned, a fresh copy.
\* The array of the previous iteration is still referenced by the loop's
\* local `frame` when the copy is allocated, and its address is the one in
\* last_frame_id (every array read is either skipped as equal to it or
\* recorded in it): the copy gets another address.  Only after an iteration
\* without a frame (frame = None) is that address free for the next copy.
\* last_frame_id is NoAddr for None and LastAddr for the recorded address.
NoAddr   == 0
LastAddr == 1

\* The addresses the copy made by read_frame can have, relative to the
\* loop's last_frame_id.
CopyIds(l) ==
    IF l.held \/ l.last_frame_id = NoAddr THEN {"other"} ELSE {"other", "same"}

\* What a loop inside _update_counts holds: the detections of its frame and
\* the ones whose track_id it has found not to be in seen_ids.
NoJob == [dets |-> <<>>, found |-> {}]

\* A _process_loop thread: its position, whether its local `frame` refers to
\* an array, last_frame_id, and (history) the frame it read last and what
\* its last iteration did.
NewLoop == [pc |-> "top", held |-> FALSE, last_frame_id |-> NoAddr,
            frame |-> NoFrame, last |-> "none", job |-> NoJob]

\* self.thread.join(timeout=3.0) after stop_event.set(): a loop at the top of
\* an iteration sees the event and returns; a loop inside the detector call
\* outlives the join.
LoopsAfterStop(l, th) ==
    IF th /= NoThread /\ l[th].pc = "top" THEN [l EXCEPT ![th].pc = "done"] ELSE l

\* start_processing after a successful open: is_running was cleared by
\* stop_processing, so the event is cleared and a new thread is started.
StartProcessing(l) == Append(l, NewLoop)

\* set_source_file / set_source_rtsp / set_source_webcam
SessSetSource(kind, cam, o, save_ok, load_ok) ==
    LET r == Attempt(kind, o, n_caps + 1)
        l == LoopsAfterStop(loops, thread)
    IN  /\ SetSourceStats(kind, cam, r.success, save_ok, load_ok)
        /\ SmOpenEffects(kind, o)
        /\ stop_event' = ~r.success
        /\ loops' = IF r.success THEN StartProcessing(l) ELSE l
        /\ thread' = IF r.success THEN Len(l) + 1 ELSE thread
        /\ UNCHANGED wsVars

\* stop_processing
SessStopProcessing ==
    /\ StopStats
    /\ SmStopEffects
    /\ stop_event' = TRUE
    /\ loops' = LoopsAfterStop(loops, thread)
    /\ UNCHANGED thread
    /\ UNCHANGED wsVars

\* The loop finds stop_event set and returns.
LoopExit(t) ==
    /\ loops[t].pc = "top"
    /\ stop_event
    /\ loops' = [loops EXCEPT ![t].pc = "done"]
    /\ UNCHANGED <<stop_event, thread>>
    /\ UNCHANGED <<trackerVars, engineVars, wsVars, smVars>>

\* The head of an iteration with the stream running: read_frame, then either
\* the frame is skipped (its id is last_frame_id), or it is counted and
\* handed to the detector, or, without a frame, _handle_file_end for a file
\* and nothing for a live source.
LoopRead(t) ==
    /\ loops[t].pc = "top"
    /\ ~stop_event
    /\ sm_running
    /\ IF ReadFrame(sm_running, latest_frame).ret
       THEN \E a \in CopyIds(loops[t]) :
                IF a = "same"
                THEN /\ loops' = [loops EXCEPT ![t].held = TRUE, ![t].last = "skip"]
                     /\ UNCHANGED <<trackerVars, engineVars, smVars>>
                ELSE /\ frame_count' = frame_count + 1
                     /\ loops' = [loops EXCEPT ![t] = [pc |-> "detecting",
                                                       held |-> TRUE,
                                                       last_frame_id |-> LastAddr,
                                                       frame |-> ReadFrame(sm_running,
                                                                   latest_frame).frame,
                                                       last |-> "frame",
                                                       job |-> NoJob]]
                     /\ UNCHANGED <<counts, seen_ids, timeline, source_type,
                                    tracking_enabled, current_camera_id, is_running,
                                    loop_alive, sm_running, latest_broadcast_data,
                                    broadcast_seq, store, pub_count, fresh, read_log,
                                    history, last_step, n_sources>>
                     /\ UNCHANGED <<trackerVars, smVars>>
       ELSE IF IsFileBacked(source_type)
       THEN /\ FileEndEffects
            /\ SmStopEffects
            /\ loops' = [loops EXCEPT ![t].held = FALSE, ![t].last = "fileend"]
       ELSE /\ loops' = [loops EXCEPT ![t].held = FALSE, ![t].last = "noframe"]
            /\ UNCHANGED <<trackerVars, engineVars, smVars>>
    /\ UNCHANGED <<stop_event, thread>>
    /\ UNCHANGED wsVars

\* The rest of the iteration, from the return of the detector.
LoopFinish(t, raw) ==
    /\ loops[t].pc = "detecting"
    /\ FrameEffects(raw, frame_count)
    /\ loops' = [loops EXCEPT ![t].pc = "top"]
    /\ UNCHANGED <<stop_event, thread>>
    /\ UNCHANGED <<wsVars, smVars>>

\* The iteration from the return of the detector to line 210: steps 2 to 6
\* and _broadcast_seq += 1.
LoopStats(t, raw) ==
    /\ loops[t].pc = "detecting"
    /\ \E sv \in SavesAt(frame_count) \ {"raised"} :
           /\ StatsEffects(raw, frame_count, sv)
           /\ last_step' = StepRecord(raw, sv)
    /\ broadcast_seq' = broadcast_seq + 1
    /\ loops' = [loops EXCEPT ![t].pc = "publishing"]
    /\ UNCHANGED <<latest_broadcast_data, pub_count, fresh, loop_alive>>
    /\ UNCHANGED <<stop_event, thread>>
    /\ UNCHANGED <<wsVars, smVars>>

\* The iteration from line 212: the payload is built with the value
\* _broadcast_seq has now and is stored in the mailbox.
LoopPublish(t) ==
    /\ loops[t].pc = "publishing"
    /\ PublishEffects(broadcast_seq)
    /\ last_step' = [last_step EXCEPT !.seq = broadcast_seq]
    /\ loops' = [loops EXCEPT ![t].pc = "top"]
    /\ UNCHANGED <<counts, seen_ids, timeline, frame_count, source_type,
                   tracking_enabled, current_camera_id, is_running, loop_alive,
                   sm_running, broadcast_seq, store, read_log, history, n_sources>>
    /\ UNCHANGED <<stop_event, thread>>
    /\ UNCHANGED <<trackerVars, wsVars, smVars>>

\* The test of line 266 for the detections dets: the ones that carry a
\* track_id that is not in seen.
FoundNew(seen, dets) ==
    {i \in 1..Len(dets) : dets[i].track_id /= NoTrackId /\ dets[i].track_id \notin seen}

\* Lines 267-268 for the detections found new: seen_ids.add and counts += 1.
AddFound(cnt, seen, dets, found) ==
    <<[c \in DOMAIN cnt |->
          cnt[c] + Cardinality({i \in found : dets[i].class_name = c})],
      seen \cup {dets[i].track_id : i \in found}>>

\* The iteration in tracking mode from the return of the detector to the
\* test of line 266: tracker.update, then `track_id not in seen_ids`.  The
\* detector of the sessions reports at most one detection per frame, so the
\* tests of a call are one test.
LoopTest(t, raw) ==
    /\ loops[t].pc = "detecting"
    /\ tracking_enabled
    /\ TrackerUpdate(Detect(raw, tracking_enabled))
    /\ loops' = [loops EXCEPT
                    ![t].pc = "counting",
                    ![t].job = [dets  |-> Detect(raw, tracking_enabled),
                                found |-> FoundNew(seen_ids,
                                                   Detect(raw, tracking_enabled))]]
    /\ UNCHANGED engineVars
    /\ UNCHANGED <<stop_event, thread>>
    /\ UNCHANGED <<wsVars, smVars>>

\* The iteration from line 267 to its end: the detection found new is added
\* to seen_ids and counted, then steps 4 to 7.
LoopCount(t) ==
    /\ loops[t].pc = "counting"
    /\ LET job == loops[t].job
           upd == AddFound(counts, seen_ids, job.dets, job.found)
       IN  \E sv \in SavesAt(frame_count) \ {"raised"} :
               /\ counts' = upd[1]
               /\ seen_ids' = upd[2]
               /\ timeline' = TimelineAppend(timeline, Len(job.dets))
               /\ store' = IF SaveDue(frame_count)
                           THEN SaveCounts(store, current_camera_id, counts', sv = "ok")
                           ELSE store
               /\ history' = Append(history, Len(job.dets))
               /\ last_step' = [kind |-> "frame", dets |-> job.dets,
                                seen_before |-> seen_ids, counts_before |-> counts,
                                seq |-> broadcast_seq + 1, save |-> sv]
    /\ broadcast_seq' = broadcast_seq + 1
    /\ PublishEffects(broadcast_seq + 1)
    /\ loops' = [loops EXCEPT ![t].pc = "top", ![t].job = NoJob]
    /\ UNCHANGED <<frame_count, source_type, tracking_enabled, current_camera_id,
                   is_running, loop_alive, sm_running, read_log, n_sources>>
    /\ UNCHANGED <<stop_event, thread>>
    /\ UNCHANGED <<trackerVars, wsVars, smVars>>

\* The detector, the save or the annotation raises: the thread ends.
LoopRaise(t, raw, at) ==
    /\ loops[t].pc = "detecting"
    /\ RaiseEffects(raw, frame_count, at)
    /\ loops' = [loops EXCEPT ![t].pc = "done", ![t].last = "raised"]
    /\ UNCHANGED loop_alive
    /\ UNCHANGED <<stop_event, thread>>
    /\ UNCHANGED <<wsVars, smVars>>

\* The loop reads a frame only while fewer than MaxSessFrames payloads have
\* been published.
SessBudget == latest_frame /= NoFrame => pub_count < MaxSessFrames

LoopStep ==
    \E t \in DOMAIN loops :
        \/ LoopExit(t)
        \/ SessBudget /\ LoopRead(t)
        \/ \E raw \in SessDetLists : LoopFinish(t, raw)

\* The loop threads that have not returned.
LiveLoops == {t \in DOMAIN loops : loops[t].pc /= "done"}

\* The outcomes of the opens of a session: the source is there or is not.
SessOutcomesOf(kind) ==
    IF kind = "rtsp"
    THEN {[t \in {"tcp", "udp"} |-> x] : x \in {"ok", "noopen"}}
    ELSE {"ok", "noopen"}

\* The grab threads of a session, whose reads do not fail while frames are
\* there: no thread of a session is inside a reconnect, so that every one of
\* them ends at the join of stop().
SessGrab ==
    \E t \in DOMAIN grabbers : GrabRead(t, TRUE)

SessSwitch ==
    /\ n_sources < MaxSessSources
    /\ \E kind \in SourceKinds : \E o \in SessOutcomesOf(kind) :
       \E cam \in (IF kind = "rtsp" THEN CameraIds \cup {NoCamera} ELSE {NoCamera}) :
       \E save_ok, load_ok \in BOOLEAN :
           SessSetSource(kind, cam, o, save_ok, load_ok)

SessStop == SessStopProcessing

NextSession == SessSwitch \/ SessStop \/ LoopStep \/ SessGrab

\* The sessions together with the broadcast loop, which empties the mailbox
\* at any moment.
NextMailbox == NextSession \/ Read

----------------------------------------------------------------------------
(* One session on its own: a source is opened and the loop and the grab    *)
(* thread run, with no control call afterwards.  The loop reads up to      *)
(* MaxRunFrames frames, so that it meets one grabbed frame more than once, *)
(* and an iteration may raise.                                             *)

MaxRunFrames == 3

\* The outcomes under which open_<kind> succeeds at once.
OkOutcome(kind) ==
    IF kind = "rtsp" THEN [t \in {"tcp", "udp"} |-> "ok"] ELSE "ok"

RunStart ==
    /\ n_sources = 0
    /\ \E kind \in SourceKinds :
       \E cam \in (IF kind = "rtsp" THEN CameraIds \cup {NoCamera} ELSE {NoCamera}) :
           SessSetSource(kind, cam, OkOutcome(kind), TRUE, TRUE)

RunBudget == latest_frame /= NoFrame => frame_count < MaxRunFrames

RunLoop ==
    \E t \in DOMAIN loops :
        \/ RunBudget /\ LoopRead(t)
        \/ \E raw \in SessDetLists : LoopFinish(t, raw)
        \/ \E raw \in SessDetLists, at \in RaisePoints : LoopRaise(t, raw, at)

NextRun == RunStart \/ RunLoop \/ SessGrab

----------------------------------------------------------------------------
(* Sessions that follow one another on sources that open at once, with the *)
(* part of an iteration after the detector taken in two steps: a loop that *)
(* outlived the join of stop_processing runs beside the loop of the next   *)
(* session, and both execute lines 210 to 232.  The join of 3 s is long    *)
(* enough for a loop that is past the annotation to store its payload and  *)
(* see the stop event: a control call finds no loop between lines 210 and  *)
(* 232.                                                                    *)

RaceSwitch ==
    /\ n_sources < MaxSessSources
    /\ \A t \in DOMAIN loops : loops[t].pc /= "publishing"
    /\ \E kind \in {"file", "webcam"} :
           SessSetSource(kind, NoCamera, OkOutcome(kind), TRUE, TRUE)

RaceLoop ==
    \E t \in DOMAIN loops :
        \/ SessBudget /\ LoopRead(t)
        \/ \E raw \in SessDetLists : LoopStats(t, raw)
        \/ LoopPublish(t)

NextRace == RaceSwitch \/ RaceLoop \/ SessGrab

----------------------------------------------------------------------------
(* Sessions in tracking mode with _update_counts taken in two steps, the   *)
(* test of seen_ids and the additions: a loop that outlived the join of    *)
(* stop_processing and the loop of the next session can both be between    *)
(* the two.  A control call finds no loop there (the join of 3 s is long   *)
(* enough).  The detector may report a vehicle without a track id.         *)

CountDetLists == SessDetLists \cup {<<Det(NoTrackId, "car", BoxA)>>}

CountSwitch ==
    /\ \A t \in DOMAIN loops : loops[t].pc /= "counting"
    /\ SessSwitch

CountLoop ==
    \E t \in DOMAIN loops :
        \/ SessBudget /\ LoopRead(t)
        \/ \E raw \in CountDetLists : LoopTest(t, raw)
        \/ LoopCount(t)

NextCounting == CountSwitch \/ CountLoop \/ SessGrab

----------------------------------------------------------------------------
(* Specifications *)

InitThreads ==
    /\ stop_event = FALSE
    /\ thread = NoThread
    /\ loops = <<>>

Init == InitTracker /\ InitEngine /\ InitWS /\ InitSM /\ InitThreads

Spec        == Init /\ [][NextEngine]_vars
SpecLongRun == Init /\ [][NextLongRun]_vars
SpecTracker == Init /\ [][NextTracker]_vars
SpecMotion  == Init /\ [][NextMotion]_vars
SpecWS      == Init /\ [][NextWS]_vars
SpecStream  == Init /\ [][NextStream]_vars

\* Every grab thread keeps running.
FairSpecStream ==
    /\ SpecStream
    /\ \A t \in 1..MaxOpens : WF_vars(GrabThread(t))

\* Every grab thread keeps running and the network source is reachable again:
\* a reconnect that is retried for ever succeeds, and so does a read.
FairSpecReconnect ==
    /\ Init /\ [][NextGrabbing]_vars
    /\ \A t \in 1..MaxOpens :
           /\ WF_vars(GrabThread(t))
           /\ SF_vars(GrabReconnect(t, TRUE))
           /\ SF_vars(GrabRead(t, TRUE))

----------------------------------------------------------------------------
(* One session that lasts long enough for a metadata payload: the loop     *)
(* publishes up to SnapFrames payloads, with the part of an iteration      *)
(* after the detector taken in two steps, and the broadcast loop empties   *)
(* the mailbox at any moment.                                              *)

SnapFrames == 6

\* What the broadcast loop reads out of a metadata payload of the running
\* session: lines 219-220 store the dict self.stats["counts"] and the list
\* self.stats["timeline"] themselves in the payload, and steps 3 and 4 of
\* the following iterations change the two objects in place.
MetaView == [counts |-> counts, timeline |-> timeline]

SnapBudget == latest_frame /= NoFrame => pub_count < SnapFrames

SnapLoop ==
    \E t \in DOMAIN loops :
        \/ SnapBudget /\ LoopRead(t)
        \/ \E raw \in SessDetLists : LoopStats(t, raw)
        \/ LoopPublish(t)

NextSnapshot == RunStart \/ SnapLoop \/ SessGrab \/ Read

\* A session runs in tracking mode.
InitSession == Init /\ tracking_enabled
SpecSession == InitSession /\ [][NextSession]_vars
SpecRun     == Init /\ [][NextRun]_vars
SpecRace    == InitSession /\ [][NextRace]_vars
SpecCounting == InitSession /\ [][NextCounting]_vars
SpecMailbox == InitSession /\ [][NextMailbox]_vars
SpecSnapshot == Init /\ [][NextSnapshot]_vars

\* The event loop runs every ready callback, a returned gather resumes its
\* caller, and the socket writes of every viewer but SlowViewer finish.
SlowViewer == "v1"

FairSpecWS ==
    /\ SpecWS
    /\ WF_vars(RunNext)
    /\ WF_vars(\E b \in Broadcasts : BroadcastReturn(b))
    /\ WF_vars(\E b \in Broadcasts, v \in Viewers \ {SlowViewer}, ok \in BOOLEAN :
                   SendDone(b, v, ok))

\* The loop threads and the grab threads keep running.
FairSpecSession ==
    /\ SpecSession
    /\ WF_vars(LoopStep)
    /\ WF_vars(SessGrab)

----------------------------------------------------------------------------
(* Claims *)

\* The track ids carried by a list of detections.
IdsOf(dets) == {dets[i].track_id : i \in 1..Len(dets)} \ {NoTrackId}

\* The class of the first detection of dets that carries track id `id`.
FirstClassOf(dets, id) ==
    dets[CHOOSE i \in 1..Len(dets) :
            /\ dets[i].track_id = id
            /\ \A j \in 1..(i - 1) : dets[j].track_id /= id].class_name

\* C1: with tracking enabled, a processed frame adds every track id it carries
\* to seen_ids, increases the count of a class by exactly one for each id that
\* was not in seen_ids before the frame (the class of that id's first detection)
\* and changes no count for an id already in seen_ids.
C1_CountOncePerTrackId ==
    (last_step.kind = "frame" /\ tracking_enabled) =>
        LET dets == last_step.dets
            new  == IdsOf(dets) \ last_step.seen_before
        IN  /\ seen_ids = last_step.seen_before \cup IdsOf(dets)
            /\ \A c \in VehicleClasses :
                   counts[c] = last_step.counts_before[c]
                       + Cardinality({id \in new : FirstClassOf(dets, id) = c})

\* A frame carrying both an id already counted and an id not yet counted.
C1_Witness ==
    /\ last_step.kind = "frame" /\ tracking_enabled
    /\ IdsOf(last_step.dets) \cap last_step.seen_before /= {}
    /\ IdsOf(last_step.dets) \ last_step.seen_before /= {}

\* C2: the timeline never holds more than 100 entries and is always the
\* detection counts of the most recent processed frames of the session, in
\* order (the oldest entry is the one evicted).
C2_TimelineLatest100 ==
    /\ Len(timeline) <= 100
    /\ timeline = LastN(history, 100)

\* More than 100 frames were processed: entries have been evicted.
C2_Witness ==
    /\ Len(history) > 100
    /\ Len(timeline) = 100
    /\ timeline[1] /= Last(timeline)

\* C3: no payload is returned by two get_broadcast_data calls, and a read with
\* no publish since the previous read returns None.
C3_PayloadReadAtMostOnce ==
    \A i \in 1..Len(read_log) :
        /\ read_log[i].fresh = <<>> => read_log[i].got = 0
        /\ \A j \in 1..Len(read_log) :
               (i < j /\ read_log[i].got /= 0) => read_log[j].got /= read_log[i].got

\* Two consecutive reads with no publish in between: a payload, then None.
C3_Witness ==
    \E i \in 1..(Len(read_log) - 1) :
        /\ read_log[i].got /= 0
        /\ read_log[i + 1].fresh = <<>>
        /\ read_log[i + 1].got = 0

\* C4: the mailbox holds the most recently published payload that has not been
\* read, or nothing; every read returned the last payload published since the
\* previous read, or None when there was none.
C4_SingleSlotLatest ==
    /\ latest_broadcast_data.pid = (IF fresh = <<>> THEN 0 ELSE Last(fresh))
    /\ latest_broadcast_data.kind = "none" <=> fresh = <<>>
    /\ \A i \in 1..Len(read_log) :
           read_log[i].got = (IF read_log[i].fresh = <<>> THEN 0
                              ELSE Last(read_log[i].fresh))

\* A read after two publishes: the older payload was overwritten.
C4_Witness ==
    \E i \in 1..Len(read_log) :
        /\ Len(read_log[i].fresh) >= 2
        /\ read_log[i].got = Last(read_log[i].fresh)

\* The broadcast() calls that found viewer v registered and not ready.
CallsNotReady(v) ==
    {b \in Broadcasts : v \in DOMAIN bcast[b].ready_at_call /\ ~bcast[b].ready_at_call[v]}

\* The broadcast() calls whose send to viewer v succeeded.
CallsDelivered(v) ==
    {b \in Broadcasts : v \in DOMAIN bcast[b].tasks /\ bcast[b].tasks[v] = "ok"}

\* C5: a broadcast call makes no send for a viewer it finds not ready and
\* makes one for a viewer it finds ready; frames_dropped counts exactly the
\* calls that found the viewer not ready and frames_sent exactly the sends
\* that succeeded.
C5_DropOrSend ==
    /\ \A b \in Broadcasts : \A v \in DOMAIN bcast[b].ready_at_call :
           bcast[b].ready_at_call[v] <=> v \in DOMAIN bcast[b].tasks
    /\ \A v \in Viewers :
           /\ clients[v].frames_dropped = Cardinality(CallsNotReady(v))
           /\ clients[v].frames_sent = Cardinality(CallsDelivered(v))

\* One call found a viewer not ready and delivered to another.
C5_Witness ==
    \E b \in Broadcasts : \E v, w \in Viewers :
        /\ b \in CallsNotReady(v)
        /\ clients[v].frames_dropped = 1
        /\ b \in CallsDelivered(w)
        /\ clients[w].frames_sent >= 1

\* C6: every viewer has at most one send in flight.
C6_OneSendInFlight ==
    \A v \in Viewers : Cardinality(InFlight(v)) <= 1

\* C7: a broadcast call that awaits its sends returns, although the sends to
\* SlowViewer may never finish.
C7_BroadcastReturns ==
    \A b \in Broadcasts : (bcast[b].pc = "gather") ~> (bcast[b].pc = "done")

\* C8: after every update no track is more than max_age (30) frames old.
C8_NoStaleTrack ==
    \A id \in DOMAIN tracks : frame_number - tracks[id].last_update_frame <= 30

\* An update that deleted a stale track while it updated another one.
C8_Witness ==
    /\ evicted /= {}
    /\ tracking_data /= <<>>
    /\ frame_number > 30

\* C9: the snapshots of an update are one per distinct track id of its
\* detections, each the snapshot of a track the tracker holds after the call;
\* none is of a track the call deleted.
C9_SnapshotsOfDetectedTracks ==
    LET ids == {last_detections[i].track_id : i \in 1..Len(last_detections)} \ {NoTrackId}
    IN  /\ Len(tracking_data) = Cardinality(ids)
        /\ {tracking_data[i].track_id : i \in 1..Len(tracking_data)} = ids
        /\ \A i \in 1..Len(tracking_data) :
               /\ tracking_data[i].track_id \in DOMAIN tracks
               /\ tracking_data[i].track_id \notin evicted
               /\ tracking_data[i].frames_tracked
                      = tracks[tracking_data[i].track_id].frames_tracked

\* An update with more detections than distinct ids that also deleted a track.
C9_Witness ==
    /\ evicted /= {}
    /\ tracking_data /= <<>>
    /\ Len(last_detections) > Len(tracking_data)

\* C10: speed_kmh of every track is within [0, 200] and is 0 when the track
\* has fewer than 5 samples or its speed window spans zero frames.
C10_SpeedRange ==
    \A id \in DOMAIN tracks :
        LET t == tracks[id]
            n == Len(t.trajectory)
            w == IF n < 10 THEN n ELSE 10
        IN  /\ 0 <= t.speed_kmh /\ t.speed_kmh <= 200 * 10
            /\ n < 5 => t.speed_kmh = 0
            /\ t.trajectory[n - w + 1].frame = t.trajectory[n].frame => t.speed_kmh = 0

\* A track with five samples, all of one frame, reported with speed 0.
C10_Witness ==
    \E id \in DOMAIN tracks :
        LET t == tracks[id]
            n == Len(t.trajectory)
        IN  /\ n >= 5
            /\ t.trajectory[n - 4].frame = t.trajectory[n].frame
            /\ t.speed_kmh = 0


\* C11: after every update, the direction of a track whose trajectory has
\* fewer than 5 samples is "Unknown".
C11_UnknownDirectionBelowFive ==
    \A id \in DOMAIN tracks :
        Len(tracks[id].trajectory) < 5 => tracks[id].direction = "Unknown"

\* A track of an update with fewer than 5 samples beside one with a direction.
C11_Witness ==
    /\ tracking_data /= <<>>
    /\ \E id \in DOMAIN tracks :
           Len(tracks[id].trajectory) < 5 /\ tracks[id].direction = "Unknown"
    /\ \E id \in DOMAIN tracks :
           Len(tracks[id].trajectory) >= 5 /\ tracks[id].direction /= "Unknown"

\* C12: open_rtsp tries TCP, then UDP, and succeeds with the first transport
\* whose capture opens and yields a frame: TCP alone is tried when TCP
\* succeeds, and the result is success with "UDP" when TCP fails and UDP
\* succeeds.
C12_TcpThenUdp ==
    open_result.op = "rtsp" =>
        LET o == open_result.outcome
        IN  /\ o["tcp"] = "ok" =>
                   /\ open_result.success
                   /\ open_result.transport = "TCP"
                   /\ open_result.tried = <<"tcp">>
            /\ (o["tcp"] /= "ok" /\ o["udp"] = "ok") =>
                   /\ open_result.success
                   /\ open_result.transport = "UDP"
                   /\ open_result.tried = <<"tcp", "udp">>

\* open_rtsp returned after TCP failed and UDP succeeded.
C12_Witness ==
    /\ open_result.op = "rtsp"
    /\ open_result.outcome["tcp"] /= "ok"
    /\ open_result.outcome["udp"] = "ok"
    /\ open_result.transport = "UDP"
    /\ cap.kind = "rtsp"

\* C13: an open_rtsp call that fails on both transports returns success=false
\* with an error and leaves cap None, is_running false, no grab thread started
\* and every capture it created released.
C13_NoHalfOpen ==
    [][(/\ open_result'.seq /= open_result.seq
        /\ open_result'.op = "rtsp"
        /\ \A t \in {"tcp", "udp"} : open_result'.outcome[t] /= "ok")
       => (/\ ~open_result'.success
           /\ open_result'.error /= ""
           /\ cap' = NoCapture
           /\ ~sm_running'
           /\ update_thread' = NoThread
           /\ Len(grabbers') = Len(grabbers)
           /\ open_result'.created \cap open_caps' = {})]_vars

\* open_rtsp failed after a capture opened and yielded no frame.
C13_Witness ==
    /\ open_result.op = "rtsp"
    /\ ~open_result.success
    /\ open_result.created /= {}
    /\ cap = NoCapture

\* C14: at most one capture handle is open.
C14_OneCapture == Cardinality(open_caps) <= 1


\* C15: at most one _process_loop thread is executing.
C15_OneLoopThread == Cardinality(LiveLoops) <= 1

\* C16: when a set_source_* call returns, seen_ids and timeline are empty,
\* frame_count is 0 and counts are all zero or the stored counts of the
\* resumed RTSP camera.
C16_ResetOnEverySetSource ==
    [][n_sources' = n_sources + 1
       => (/\ seen_ids' = {}
           /\ timeline' = <<>>
           /\ frame_count' = 0
           /\ \/ counts' = ZeroCounts
              \/ /\ source_type' = "rtsp"
                 /\ current_camera_id' \in DOMAIN store'
                 /\ counts' = store'[current_camera_id'])]_vars

\* C17: a set_source_* call that starts a session leaves seen_ids empty, and
\* no other step removes an id from seen_ids.
C17_SeenIdsGrowWithinSession ==
    [][IF n_sources' /= n_sources /\ is_running'
       THEN seen_ids' = {}
       ELSE seen_ids \subseteq seen_ids']_vars

\* A second session starts empty after a session that counted a vehicle.
C17_Witness ==
    /\ n_sources = 2
    /\ is_running
    /\ seen_ids = {}
    /\ "cam1" \in DOMAIN store
    /\ store["cam1"]["car"] >= 1

\* The grab loop has read the last frame of the file of the running session.
FileExhausted ==
    /\ source_type = "file"
    /\ sm_running
    /\ cap.kind = "file"
    /\ file_left = 0
    /\ latest_frame = FileFrames

C19_CompleteOnlyWhenExhausted ==
    (latest_broadcast_data.kind = "complete" /\ ~is_running /\ ~stop_event)
        => /\ file_left = 0
           /\ \E t \in DOMAIN loops :
                  loops[t].frame = FileFrames /\ loops[t].pc /= "detecting"

\* C20: a step of the loop that publishes the "complete" payload, or that
\* clears is_running or stops the source, is made on a file source.
C20_LiveNeverEnds ==
    [][(\/ pub_count' /= pub_count /\ latest_broadcast_data'.kind = "complete"
        \/ /\ n_sources' = n_sources
           /\ ~stop_event'
           /\ \/ is_running /\ ~is_running'
              \/ sm_running /\ ~sm_running')
       => (source_type = "file" /\ sm_source_type = "file")]_vars

\* The loop of a live session found no frame, and the session goes on.
C20_Witness ==
    /\ source_type \in {"rtsp", "webcam"}
    /\ is_running
    /\ sm_running
    /\ \E t \in DOMAIN loops : loops[t].last = "noframe" /\ loops[t].pc /= "done"

\* C21: in a file session no more frames are processed than the grab loop has
\* read from the file: frame_count and the timeline advance at most once per
\* grabbed frame.
C21_ProcessedAtMostOnce ==
    source_type = "file" =>
        /\ frame_count <= FileFrames - file_left
        /\ Len(timeline) <= FileFrames - file_left

\* C22: a frame payload is published with the sequence number of the frame
\* payload published before it in the session plus 1 (1 for the first), and
\* carries the metadata exactly when that number is a multiple of
\* META_EVERY_N.
C22_SeqConsecutive ==
    [][(pub_count' = pub_count + 1 /\ latest_broadcast_data'.kind = "frame")
       => (/\ latest_broadcast_data'.seq = last_step.seq + 1
           /\ latest_broadcast_data'.meta
                  <=> (latest_broadcast_data'.seq % META_EVERY_N = 0))]_vars

\* C23: when the detector call or the annotation of an iteration has raised,
\* the loop thread has ended and is_running is false.
C23_RaiseStopsEngine ==
    last_step.kind \in {"detect_raised", "annotate_raised"} =>
        /\ \A t \in DOMAIN loops : loops[t].last = "raised" => loops[t].pc = "done"
        /\ ~is_running

\* C24: an iteration whose save_counts call fails goes on to publish its
\* payload: the loop keeps running, the store is as before and the counts
\* are those the frame produced.
C24_SaveFailureNotFatal ==
    [][(/\ last_step' /= last_step
        /\ last_step'.kind \in {"frame", "save_raised"}
        /\ last_step'.save \in {"failed", "raised"})
       => (/\ loop_alive'
           /\ is_running'
           /\ pub_count' = pub_count + 1
           /\ latest_broadcast_data'.kind = "frame"
           /\ store' = store
           /\ counts' = IF tracking_enabled
                        THEN UpdateCounts(counts, seen_ids, last_step'.dets)[1]
                        ELSE CountEvery(counts, last_step'.dets))]_vars

\* C25: from a call of stop_processing until the next start, whether stop was
\* called once or again, the engine and its stream manager are stopped:
\* cap None, is_running false, latest_frame None, no grab thread owned and
\* no loop thread running.
C25_StopLeavesStopped ==
    stop_event =>
        /\ cap = NoCapture
        /\ ~sm_running
        /\ latest_frame = NoFrame
        /\ update_thread = NoThread
        /\ ~is_running
        /\ LiveLoops = {}

\* C26: a read_frame call returns (False, None) exactly when the source is
\* not running or no frame has been stored since the last open_* or stop
\* call; otherwise it returns (True, the frame stored last); in both cases
\* it leaves latest_frame as it was.
C26_ReadFrameContract ==
    [][read_result'.tick /= read_result.tick
       => (/\ read_result'.ret <=> (sm_running /\ last_grab /= NoFrame)
           /\ read_result'.frame = (IF read_result'.ret THEN last_grab ELSE NoFrame)
           /\ latest_frame' = latest_frame)]_vars

\* A read returned the frame grabbed last, which is still in the slot.
C26_Witness ==
    /\ read_result.ret
    /\ sm_running
    /\ read_result.frame = last_grab
    /\ latest_frame = last_grab

\* C27: a grab thread ends only in a step that signals stop or finds stop
\* signalled, and a grab thread that is running when stop is signalled
\* eventually ends.
C27_GrabLoopEndsOnlyOnStop ==
    /\ [][\A t \in DOMAIN grabbers :
              (grabbers[t].pc /= "done" /\ grabbers'[t].pc = "done")
                  => (stop_thread \/ stop_thread'
                          \/ open_result'.seq /= open_result.seq)]_vars
    /\ \A t \in 1..MaxOpens :
           (t \in DOMAIN grabbers /\ grabbers[t].pc /= "done" /\ stop_thread)
               ~> (t \in DOMAIN grabbers /\ grabbers[t].pc = "done")


\* C28: counts survive a stop/restart of the same camera.  Whenever a
\* set_source_rtsp with camera id X succeeds and the counter store holds the
\* counts flushed for X, the new session starts with exactly those counts and
\* with empty seen_ids.
C28_CountsSurviveRestart ==
    [][(/\ n_sources' = n_sources + 1
        /\ is_running'
        /\ source_type' = "rtsp"
        /\ current_camera_id' /= NoCamera
        /\ current_camera_id' \in DOMAIN store')
           => (/\ counts' = store'[current_camera_id']
               /\ seen_ids' = {})]_vars

\* The restart that does resume: the store held non-zero counts for the camera
\* and the session that has just started carries them.
C28_Resumed ==
    /\ is_running /\ source_type = "rtsp" /\ frame_count = 0
    /\ current_camera_id /= NoCamera
    /\ current_camera_id \in DOMAIN store
    /\ store[current_camera_id] /= ZeroCounts
    /\ counts = store[current_camera_id]
    /\ seen_ids = {}


\* The send of call b to viewer v has raised.
SendFailed(bc, v) == v \in DOMAIN bc.tasks /\ bc.tasks[v] = "failed"

\* C29: a send that raises for one viewer is swallowed.  In the step in which
\* the send of call b to viewer v raises, v is left ready, its frames_sent is
\* unchanged and it stays registered, the call goes on awaiting its other
\* sends and those are untouched; a call that has returned has finished a
\* send, delivered or raised, for every viewer it found ready, and when it
\* returns a viewer whose send raised is ready unless a send of another call
\* to that viewer is in flight.
C29_FailedSendSwallowed ==
    /\ [][\A b \in Broadcasts : \A v \in Viewers :
              (SendFailed(bcast'[b], v) /\ ~SendFailed(bcast[b], v))
                  => /\ clients'[v].ready
                     /\ clients'[v].frames_sent = clients[v].frames_sent
                     /\ clients'[v].conn = clients[v].conn
                     /\ conn_order' = conn_order
                     /\ bcast'[b].pc = "gather"
                     /\ \A w \in DOMAIN bcast[b].tasks \ {v} :
                            bcast'[b].tasks[w] = bcast[b].tasks[w]]_vars
    /\ [](\A b \in Broadcasts :
              /\ bcast[b].pc = "done" =>
                     \A v \in DOMAIN bcast[b].ready_at_call :
                         bcast[b].ready_at_call[v] =>
                             (v \in DOMAIN bcast[b].tasks
                                  /\ bcast[b].tasks[v] \in {"ok", "failed"})
              /\ (bcast[b].pc = "gather" /\ Unfinished(bcast[b]) = {}) =>
                     ENABLED BroadcastReturn(b))
    /\ [][\A b \in Broadcasts : \A v \in Viewers :
              (bcast[b].pc = "gather" /\ bcast'[b].pc = "done"
                   /\ SendFailed(bcast[b], v))
                  => (clients'[v].ready \/ InFlight(v) /= {})]_vars

\* A call has returned after its send to one viewer raised and its send to
\* another was delivered; the failing viewer is ready, registered and has no
\* frame counted.
C29_Witness ==
    \E b \in Broadcasts : \E v, w \in Viewers :
        /\ bcast[b].pc = "done"
        /\ SendFailed(bcast[b], v)
        /\ w \in DOMAIN bcast[b].tasks /\ bcast[b].tasks[w] = "ok"
        /\ clients[w].frames_sent = 1
        /\ clients[v].ready /\ clients[v].frames_sent = 0
        /\ clients[v].conn = "open" /\ v \in SeqToSet(conn_order)


\* The trajectory holds n + 1 samples of consecutive frames that go from
\* `from` to `to` (pixels) in equal steps.
UniformPath(trajectory, from, to, n) ==
    /\ Len(trajectory) = n + 1
    /\ trajectory[1].pos = <<2 * from[1], 2 * from[2]>>
    /\ trajectory[n + 1].pos = <<2 * to[1], 2 * to[2]>>
    /\ \A i \in 1..n :
           /\ trajectory[i + 1].frame = trajectory[i].frame + 1
           /\ n * (trajectory[i + 1].pos[1] - trajectory[i].pos[1]) = 2 * (to[1] - from[1])
           /\ n * (trajectory[i + 1].pos[2] - trajectory[i].pos[2]) = 2 * (to[2] - from[2])

\* The directions whose flow is inbound.
InboundDirections == {"MASUK (" \o Directions[i] \o ")" : i \in 1..Len(Directions)}

\* C30: a track whose centroid moves uniformly from (100,100) to (100,50)
\* over 10 frames has speed 9.0 km/h (90 tenths) at fps 25 and 50 pixels per
\* metre, and the direction outbound (KELUAR), sector North (Utara); and the
\* flow of every computed direction is inbound (MASUK) exactly when the
\* newest sample of the trajectory lies lower in the image (larger y) than
\* the oldest.
C30_ScenarioSpeedAndDirection ==
    \A id \in DOMAIN tracks :
        /\ UniformPath(tracks[id].trajectory, <<100, 100>>, <<100, 50>>, 10)
               => /\ tracks[id].speed_kmh = 90
                  /\ tracks[id].direction = "KELUAR (Utara)"
        /\ tracks[id].direction /= "Unknown"
               => (tracks[id].direction \in InboundDirections
                       <=> Last(tracks[id].trajectory).pos[2]
                               > tracks[id].trajectory[1].pos[2])

\* The track of the scenario after its eleventh sample.
C30_Witness ==
    /\ 1 \in DOMAIN tracks
    /\ UniformPath(tracks[1].trajectory, <<100, 100>>, <<100, 50>>, 10)
    /\ tracks[1].speed_kmh = 90
    /\ tracks[1].direction = "KELUAR (Utara)"


\* C31: a grab thread enters a reconnect only from the top of its loop, for
\* an rtsp source, after a read that stored no frame; the current capture is
\* released before any capture is created and the new one is created over
\* TCP; the reconnect ends with self.cap either unchanged or a newly opened
\* rtsp capture; and the grab thread of the session, once inside a
\* reconnect, eventually grabs a frame again, unless the session is stopped
\* or replaced or the captures of the model are used up.
C31_ReconnectRtspOverTcp ==
    /\ [][\A t \in DOMAIN grabbers :
              /\ (grabbers[t].pc /= "creating" /\ grabbers'[t].pc = "creating")
                     => /\ sm_source_type = "rtsp"
                        /\ grabbers[t].pc \in AtLoopTop
                        /\ latest_frame' = latest_frame
                        /\ cap \notin open_caps'
                        /\ n_caps' = n_caps
                        /\ grabbers'[t].transport = "tcp"
              /\ (grabbers[t].pc = "creating" /\ grabbers'[t].pc /= "creating")
                     => \/ cap' = cap /\ open_caps' = open_caps
                        \/ /\ cap' \in open_caps' \ open_caps
                           /\ cap'.kind = "rtsp"]_vars
    /\ \A t \in 1..MaxOpens :
           (t = update_thread /\ t \in DOMAIN grabbers
                /\ grabbers[t].pc = "creating")
               ~> \/ t \in DOMAIN grabbers /\ grabbers[t].pc \in {"loop", "done"}
                  \/ update_thread /= t
                  \/ stop_thread
                  \/ ~sm_running
                  \/ n_caps >= MaxCaptures

\* A session opened over UDP whose grab thread has reconnected and grabbed a
\* frame from the capture of the reconnect.
C31_Witness ==
    /\ open_result.transport = "UDP"
    /\ sm_running /\ ~stop_thread
    /\ update_thread /= NoThread
    /\ grabbers[update_thread].pc = "loop"
    /\ cap \in open_caps
    /\ cap \notin open_result.created
    /\ latest_frame = LiveFrame


\* The number of detections of class c in dets.
ClassCount(dets, c) == Cardinality({i \in 1..Len(dets) : dets[i].class_name = c})

\* C32: with tracking disabled, an iteration that gets past the detector
\* adds to the count of every class the number of detections of that class in
\* the frame, leaves seen_ids as it was and does not touch the tracker.
C32_UntrackedCountsEveryDetection ==
    [][(/\ ~tracking_enabled
        /\ last_step' /= last_step
        /\ last_step'.kind \in {"frame", "save_raised", "annotate_raised"})
           => /\ \A c \in VehicleClasses :
                     counts'[c] = counts[c] + ClassCount(last_step'.dets, c)
              /\ seen_ids' = seen_ids
              /\ UNCHANGED trackerVars]_vars

\* Tracking is off and the same two detections of a class have been counted
\* in two frames.
C32_Witness ==
    /\ ~tracking_enabled
    /\ last_step.kind = "frame"
    /\ ClassCount(last_step.dets, "truck") = 2
    /\ last_step.counts_before["truck"] = 2
    /\ counts["truck"] = 4
    /\ seen_ids = {}
    /\ tracks = <<>>


RECURSIVE SamplesOf(_, _, _)
\* The samples that the detections dets of frame `frame` carry for track id.
SamplesOf(dets, id, frame) ==
    IF dets = <<>> THEN <<>>
    ELSE (IF Head(dets).track_id = id
          THEN <<[pos |-> <<Head(dets).bbox[1] + Head(dets).bbox[3],
                            Head(dets).bbox[2] + Head(dets).bbox[4]>>,
                  frame |-> frame]>>
          ELSE <<>>) \o SamplesOf(Tail(dets), id, frame)

\* C33: the trajectory of every track holds min(30, frames_tracked) samples;
\* an update call appends one sample per detection of the track, in the order
\* of the detections, adds their number to frames_tracked and keeps the 30
\* newest samples; a new track starts with the samples of its first call.
C33_TrajectoryNewest30 ==
    /\ [](\A id \in DOMAIN tracks :
              Len(tracks[id].trajectory) = Min(30, tracks[id].frames_tracked))
    /\ [][\A id \in DOMAIN tracks' :
              LET new == SamplesOf(last_detections', id, frame_number')
                  old == IF id \in DOMAIN tracks THEN tracks[id].trajectory ELSE <<>>
                  n   == IF id \in DOMAIN tracks THEN tracks[id].frames_tracked ELSE 0
                  all == old \o new
              IN  /\ tracks'[id].frames_tracked = n + Len(new)
                  /\ tracks'[id].frames_tracked >= n
                  /\ tracks'[id].trajectory =
                         IF Len(all) <= 30 THEN all
                         ELSE SubSeq(all, Len(all) - 29, Len(all))]_vars

\* A track seen in more than 30 calls: its trajectory holds 30 samples and the
\* oldest of them is not the first one taken.
C33_Witness ==
    \E id \in DOMAIN tracks :
        /\ tracks[id].frames_tracked > 30
        /\ Len(tracks[id].trajectory) = 30
        /\ tracks[id].trajectory[1].frame > 1
        /\ tracks[id].trajectory[30].frame = frame_number


\* Track id has no detection in dets.
NotDetected(id, dets) == \A i \in 1..Len(dets) : dets[i].track_id /= id

\* C34: an update call leaves a track that has no detection in the call and
\* is at most max_age (30) frames old in the tracker with every attribute
\* unchanged, and deletes it when it is older.
C34_UnseenTrackUntouched ==
    [][frame_number' = frame_number + 1 =>
          \A id \in DOMAIN tracks :
              NotDetected(id, last_detections') =>
                  IF frame_number' - tracks[id].last_update_frame <= 30
                  THEN id \in DOMAIN tracks' /\ tracks'[id] = tracks[id]
                  ELSE id \notin DOMAIN tracks']_vars

\* A track that was last detected max_age calls ago is still held after a
\* call that carried no detection of it.
C34_Witness ==
    \E id \in DOMAIN tracks :
        /\ NotDetected(id, last_detections)
        /\ frame_number - tracks[id].last_update_frame = 30
        /\ tracks[id].frames_tracked >= 1


\* C35: the stats have one writer at a time.  A set_source_* call that resets
\* the stats finds no processing loop left running, and an iteration of a
\* processing loop changes counts, seen_ids, timeline or frame_count only if
\* the loop is the one started for the current source.
C35_SingleWriter ==
    [][/\ (n_sources' = n_sources + 1 /\ is_running')
              => \A t \in DOMAIN loops : loops'[t].pc = "done"
       /\ \A t \in DOMAIN loops :
              (/\ loops[t].pc \in {"top", "detecting"}
               /\ loops'[t].pc \in {"top", "detecting"}
               /\ loops'[t] /= loops[t]
               /\ <<counts, seen_ids, timeline, frame_count>>'
                      /= <<counts, seen_ids, timeline, frame_count>>)
                  => t = thread]_vars


\* The sum of the class counts.
TotalCount(cnt) == cnt["car"] + cnt["motorcycle"] + cnt["bus"] + cnt["truck"]

\* The detections of dets that carry a track id.
Tracked(dets) == {i \in 1..Len(dets) : dets[i].track_id /= NoTrackId}

\* C36: in tracking mode a session starts with empty seen_ids and with zero
\* or stored counts, and from then on the sum of the counts minus the size of
\* seen_ids stays what it was, no count decreases, and a frame adds all its
\* detections to the timeline but at most those with a track_id to the
\* counts.
C36_CountsFollowSeenIds ==
    [][tracking_enabled =>
          IF n_sources' /= n_sources /\ is_running'
          THEN /\ seen_ids' = {}
               /\ counts' \in {ZeroCounts} \cup {store'[c] : c \in DOMAIN store'}
          ELSE /\ TotalCount(counts') - Cardinality(seen_ids')
                      = TotalCount(counts) - Cardinality(seen_ids)
               /\ \A c \in VehicleClasses : counts'[c] >= counts[c]
               /\ (last_step' /= last_step /\ last_step'.kind = "frame")
                      => /\ Last(timeline') = Len(last_step'.dets)
                         /\ TotalCount(counts') - TotalCount(counts)
                                <= Cardinality(Tracked(last_step'.dets))]_vars


\* C37: while the source is a file or a webcam no camera id is set, and no
\* step taken in such a session (a periodic save, the save of
\* stop_processing) changes the counter store.
C37_NoCameraOnFileOrWebcam ==
    /\ [](source_type \in {"file", "webcam"} => current_camera_id = NoCamera)
    /\ [][(source_type \in {"file", "webcam"}) => (store' = store)]_vars

\* C38: get_broadcast_data returns what the mailbox holds, so no payload of
\* an earlier session is returned after a successful set_source_* exactly
\* when that call leaves the mailbox empty: whatever it holds at that moment
\* was published before the switch.
C38_NoPayloadAcrossSwitch ==
    [][(n_sources' = n_sources + 1 /\ is_running')
           => (latest_broadcast_data' = NoPayload)]_vars

\* C39: what is read out of a metadata payload is what the counts dict and
\* the timeline list hold at the read, so it is what they held at the
\* publish exactly when no step of the session changes them while the
\* payload waits in the mailbox.
C39_PayloadIsSnapshot ==
    [][(/\ latest_broadcast_data.meta
        /\ latest_broadcast_data' = latest_broadcast_data
        /\ n_sources' = n_sources)
           => (MetaView' = MetaView)]_vars

\* The grab threads that have not returned.
LiveGrabbers == {t \in DOMAIN grabbers : grabbers[t].pc /= "done"}

\* A frame the capture of a source of type kind delivers.
FrameOfKind(kind, frame) ==
    IF kind = "file" THEN frame \in 1..FileFrames ELSE frame = LiveFrame

\* C40: while the manager is running at most one grab thread has not
\* returned; a frame that read_frame returns is a frame of the kind of
\* source opened last (a frame of the file for a file, a live frame for a
\* camera or webcam); and while the manager is stopped latest_frame is
\* empty.
C40_NoFrameAcrossOpen ==
    /\ [](sm_running => Cardinality(LiveGrabbers) <= 1)
    /\ [][(read_result'.tick /= read_result.tick /\ read_result'.ret)
              => FrameOfKind(sm_source_type, read_result'.frame)]_vars
    /\ [](~sm_running => latest_frame = NoFrame)

=============================================================================
